---- MODULE Spec2Model ----
(***************************************************************************)
(* ideacode: the turn orchestration engine of the terminal agent.          *)
(*                                                                         *)
(*   SpecBudget  ensureUnderBudget / compressState / estimateTokens        *)
(*               (src/src/context.ts).                                     *)
(*   SpecDecode  callApiStream (src/unnamed/part_001): the decoder of the   *)
(*               streamed response, one event line after another.          *)
(*   SpecSched   one round-trip of processInput (src/src/repl.tsx): the    *)
(*               tool calls of one model response, scheduled and run.      *)
(*   SpecRetry   callApi (src/src/api.ts) as the loop of processInput      *)
(*               calls it, with the onRetry callback it is handed.         *)
(*   SpecRuns    callApiStream run twice on the bytes of one response.     *)
(*   SpecTools   the tool registry (src/src/tools/bash.ts) and webSearch    *)
(*               (src/src/tools/web.ts): getTools, makeSchema, runTool.    *)
(*   Spec        the Repl component (src/src/repl.tsx): the keys of the    *)
(*               operator, handleSubmit and the turns of processInput.     *)
(*                                                                         *)
(* A message is a record: role, and either a string content (str = TRUE,   *)
(* len = its length in characters) or a list of content blocks.            *)
(***************************************************************************)
EXTENDS Integers, Sequences, FiniteSets, TLC

VARIABLES
    bState,     \* ensureUnderBudget: the history passed in (state)
    bPrompt,    \* ensureUnderBudget: systemPrompt.length
    bMax,       \* options.maxTokens
    bKeep,      \* options.keepLast
    bPc,        \* ensureUnderBudget: "call" | "summarizing" | "returned" | "threw";
                \* compressState: "c_summarizing" | "c_unchanged" | "c_compressed" | "c_threw"
    bWorking,   \* the value returned (working), << >> until then
    bRound,     \* 1 for the call on the history, 2 for the call on its result
    sBlocks,    \* processInput: contentBlocks of the model response
    sParallel,  \* ENABLE_PARALLEL_TOOL_CALLS
    sIdx,       \* position of the for loop over contentBlocks
    sBatch,     \* parallelBatch: positions of the planned calls not yet run
    sRunning,   \* positions of the calls whose runTool promise is pending
    sSettled,   \* position -> output of the batch calls that have completed
    sStarted,   \* positions of the calls in the order runTool was called
    sEnded,     \* positions of the calls in the order runTool returned
    sResults,   \* toolResults
    sState,     \* the local variable state of processInput
    sPc,        \* "loop" | "batch" | "seq" | "done"
    sOutcome,   \* "none" | "empty" | "settled" | "next_model_call"
    dStream,    \* callApiStream: the parsed event lines of the response stream
    dPos,       \* position of the next event line
    dSt,        \* toolAccum, contentBlocks, textAccum, textBlockIndex, returned
                \* (SpecRuns: each of the three is a pair, one entry per run)
    messages,   \* Repl: the React state messages (the ConversationState)
    loading,    \* Repl: the React state loading
    contextLength,  \* context_length of the current model, 0 when modelList has none
    queuedMessage,  \* queuedMessageRef.current: 0 (null) or the length of the text
    lastUserMessage,\* lastUserMessageRef.current is not empty
    acts,       \* the calls of handleSubmit in progress
    submits,    \* inputs handed over so far: Enter, Tab, a selection, the models list
    roundTrips, \* round-trips with tool calls so far
    notice,     \* the last error or stop notice in the log lines, "none" without one
    rPc,        \* processInput and callApi: "loop" | "fetching" | "returned" | "thrown"
    rAttempt,   \* callApi: requests sent to the endpoint in the turn
    rStatus,    \* callApi: res.status of the last response, 0 before the first
    rRetryAfter,\* the wait the last response asks for in milliseconds, 0 without one
    rLog,       \* the arguments of the calls of onRetry, in order
    wKey,       \* tools: getBraveSearchApiKey() returns a key
    wName,      \* tools: the name runTool is called with
    wQuery,     \* tools: args.query: "missing", "blank" or "text"
    wCall,      \* tools: "none" | "makeSchema" | "runTool" | "webSearch"
    wPc,        \* tools: "start" | "searching" | "returned"
    wOut,       \* tools: the string returned, << >> until then
    wSchema,    \* tools: the names makeSchema() returned, {} until then
    wRequests   \* tools: requests sent to the Brave Search API

budgetVars == <<bState, bPrompt, bMax, bKeep, bPc, bWorking, bRound>>

schedVars == <<sBlocks, sParallel, sIdx, sBatch, sRunning, sSettled, sStarted,
               sEnded, sResults, sState, sPc, sOutcome>>

decodeVars == <<dStream, dPos, dSt>>

turnVars == <<messages, loading, contextLength, queuedMessage, lastUserMessage,
              acts, submits, roundTrips, notice>>

retryVars == <<rPc, rAttempt, rStatus, rRetryAfter, rLog>>

toolVars == <<wKey, wName, wQuery, wCall, wPc, wOut, wSchema, wRequests>>

vars == <<bState, bPrompt, bMax, bKeep, bPc, bWorking, bRound,
          sBlocks, sParallel, sIdx, sBatch, sRunning, sSettled, sStarted,
          sEnded, sResults, sState, sPc, sOutcome,
          dStream, dPos, dSt,
          messages, loading, contextLength, queuedMessage, lastUserMessage,
          acts, submits, roundTrips, notice,
          rPc, rAttempt, rStatus, rRetryAfter, rLog,
          wKey, wName, wQuery, wCall, wPc, wOut, wSchema, wRequests>>

(***************************************************************************)
(* Bounds of the model.                                                    *)
(***************************************************************************)
MaxHist == 4          \* longest history handed to ensureUnderBudget
MaxKeepLast == 2      \* largest keepLast tried by SpecBudget
MaxBlocks == 3        \* content blocks in one model response (SpecSched)
MaxArgLen == 4        \* every JSON text up to this length is an arguments string
MaxFragments == 3     \* fragments one arguments string is cut into
MaxSlot == 1          \* highest tool-call slot index of a stream
MaxEvents == 3        \* event lines of a mixed stream, before its ending
MaxLines == 2         \* newline-terminated lines of a byte stream
MaxChunks == 2        \* chunks reader.read() delivers a byte stream in
MaxActs == 2          \* calls of handleSubmit that can be in progress at once
MaxSubmits == 2       \* inputs the component is handed: Enter, Tab, a selection, the models list
MaxRoundTrips == 1    \* round-trips with tool calls in one run
MaxCalls == 4         \* model calls of one turn (SpecRetry)

RECURSIVE SeqToSet(_)
SeqToSet(q) == IF q = << >> THEN {} ELSE {Head(q)} \cup SeqToSet(Tail(q))

(***************************************************************************)
(* Messages and content blocks.                                            *)
(*                                                                         *)
(* A text (a string content, the content of a tool_result, a summary) is   *)
(* its length in characters and its pins: those of its lines that match    *)
(* the importantPattern of extractPinnedFacts, each one the string it is,   *)
(* in the order of the text.  The characters of a text are ones that       *)
(* JSON.stringify writes as they are, but for the two newlines of          *)
(* TRUNCATE_NOTE.  The texts the operator types and the strings the tools  *)
(* return without an error are taken without a line that matches; an       *)
(* error string is one line, which matches.                                *)
(***************************************************************************)
MAX_TOOL_RESULT_CHARS == 3500

\* TRUNCATE_NOTE.length: two newlines and a line of 131 characters.
TRUNCATE_NOTE_CHARS == 133

\* The line of TRUNCATE_NOTE.
TRUNCATE_NOTE_LINE ==
    "(Output truncated to save context. Use read with offset/limit, grep with a specific pattern, or tail with fewer lines to get more.)"

MAX_PINNED_FACTS == 28
MAX_PINNED_FACT_CHARS == 200

Min(x, y) == IF x <= y THEN x ELSE y

Text(n, pins) == [len |-> n, pins |-> pins]

StrMsg(role, n) ==
    [role |-> role, str |-> TRUE, len |-> n, blocks |-> << >>, pins |-> << >>]

\* A message whose content is the string text.
TextMsg(role, text) == [StrMsg(role, text.len) EXCEPT !.pins = text.pins]

BlocksMsg(role, bs) ==
    [role |-> role, str |-> FALSE, len |-> 0, blocks |-> bs, pins |-> << >>]

\* A content block. id is a tool_use's id or a tool_result's tool_use_id; len is
\* the length of the text, of the serialized input or of the result content;
\* blank says that a text trims to nothing; input is JSON.stringify(input) of
\* a tool_use that has an input; call is, for a tool_result, the position in
\* the response of the call whose output is the content, err says that the
\* content starts with "error:", and pins are the lines of the content that
\* match importantPattern.
TextBlock(n, blank) ==
    [type |-> "text", id |-> "", name |-> "", hasInput |-> FALSE, len |-> n,
     blank |-> blank, input |-> "", call |-> 0, err |-> FALSE, pins |-> << >>]

\* The inputs of the model's calls are empty objects.
ToolUse(id, name, hasInput) ==
    [type |-> "tool_use", id |-> id, name |-> name, hasInput |-> hasInput, len |-> 2,
     blank |-> FALSE, input |-> IF hasInput THEN "{}" ELSE "", call |-> 0,
     err |-> FALSE, pins |-> << >>]

ToolResult(id, n, call) ==
    [type |-> "tool_result", id |-> id, name |-> "", hasInput |-> FALSE, len |-> n,
     blank |-> FALSE, input |-> "", call |-> call, err |-> FALSE, pins |-> << >>]

\* String lengths of the identifiers and tool names the model uses.
StrLen(s) ==
    CASE s = "" -> 0
      [] s \in {"t1", "t2", "t3", "t4", "t5"} -> 2
      [] s \in {"read", "grep", "glob", "bash", "READ"} -> 4
      [] s \in {"write", "GREP ", "bogus"} -> 5
      [] OTHER -> 1

\* A result content longer than MAX_TOOL_RESULT_CHARS is one that
\* truncateToolResult has cut and ended with TRUNCATE_NOTE.
EndsWithNote(b) == b.type = "tool_result" /\ b.len > MAX_TOOL_RESULT_CHARS

\* The characters JSON.stringify adds to the content of a block when it
\* escapes it: one for each of the two newlines of TRUNCATE_NOTE.
EscapeChars(b) == IF EndsWithNote(b) THEN 2 ELSE 0

\* JSON.stringify(block).length: the fixed keys and punctuation of each block
\* type plus its variable parts: the text, the serialized input object, or the
\* result content with its escapes.
BlockJsonLen(b) ==
    CASE b.type = "text" -> 25 + b.len
      [] b.type = "tool_use" ->
            IF b.hasInput THEN 46 + StrLen(b.id) + StrLen(b.name) + b.len
            ELSE 37 + StrLen(b.id) + StrLen(b.name)
      [] OTHER -> 52 + StrLen(b.id) + b.len + EscapeChars(b)

RECURSIVE SumBlockJsonLen(_)
SumBlockJsonLen(bs) ==
    IF bs = << >> THEN 0 ELSE BlockJsonLen(Head(bs)) + SumBlockJsonLen(Tail(bs))

\* JSON.stringify(content).length of a block array: brackets, commas, blocks.
JsonStringifyLen(bs) ==
    2 + SumBlockJsonLen(bs) + (IF Len(bs) > 1 THEN Len(bs) - 1 ELSE 0)

ContentChars(m) == IF m.str THEN m.len ELSE JsonStringifyLen(m.blocks)

RECURSIVE SumChars(_)
SumChars(ms) == IF ms = << >> THEN 0 ELSE ContentChars(Head(ms)) + SumChars(Tail(ms))

\* Mutant: the quotient is rounded down.
MathRoundDiv4_Floor(chars) == chars \div 4

\* Math.round(chars / 4): chars >= 0, so round-half-up is floor((chars + 2) / 4).
MathRoundDiv4(chars) == (chars + 2) \div 4

estimateTokens(ms, promptChars) == MathRoundDiv4(SumChars(ms) + promptChars)

(***************************************************************************)
(* compressState and ensureUnderBudget.  context.ts defines both twice:    *)
(* the definitions of lines 125-163 first here, then those of lines 19-55  *)
(* (compressStateFirst, ensureUnderBudgetFirst).                            *)
(***************************************************************************)
\* state.slice(-keepLast): slice(-0) is slice(0), the whole array.
SliceLast(state, keepLast) ==
    IF keepLast = 0 \/ keepLast >= Len(state) THEN state
    ELSE SubSeq(state, Len(state) - keepLast + 1, Len(state))

\* state.slice(0, state.length - keepLast)
toSummarize(state, keepLast) == SubSeq(state, 1, Len(state) - keepLast)

\* l.trim(), for lines whose white space is made of blanks: the line without
\* the blanks of its ends.
RECURSIVE trimEnd(_)
trimEnd(line) ==
    IF Len(line) > 0 /\ SubSeq(line, Len(line), Len(line)) = " "
    THEN trimEnd(SubSeq(line, 1, Len(line) - 1))
    ELSE line

RECURSIVE trim(_)
trim(line) ==
    IF Len(line) > 0 /\ SubSeq(line, 1, 1) = " "
    THEN trim(SubSeq(line, 2, Len(line)))
    ELSE trimEnd(line)

\* line.replace(/\s+/g, " ") for the characters lo..hi of line: a blank
\* behind a blank is left out.
RECURSIVE collapse(_, _, _)
collapse(line, lo, hi) ==
    IF lo > hi THEN ""
    ELSE IF lo = hi
    THEN (IF lo > 1 /\ SubSeq(line, lo, lo) = " " /\ SubSeq(line, lo - 1, lo - 1) = " "
          THEN ""
          ELSE SubSeq(line, lo, lo))
    ELSE CHOOSE c \in { collapse(line, lo, mid) \o collapse(line, mid + 1, hi) :
                            mid \in {(lo + hi) \div 2} } : TRUE

\* cleaned: line.replace(/\s+/g, " ").slice(0, MAX_PINNED_FACT_CHARS)
cleaned(line) ==
    CHOOSE c \in { SubSeq(whole, 1, Min(Len(whole), MAX_PINNED_FACT_CHARS)) :
                       whole \in { collapse(l, 1, Len(l)) : l \in {line} } } : TRUE

\* The lines of messageContentToText for one block that match
\* importantPattern: the lines of a content that is a string (a tool_result's),
\* and "tool_use <name> <input>" with JSON.stringify(input ?? {}) for a
\* tool_use; a text block has no content and gives no line.
BlockLines(b) ==
    CASE b.type = "tool_use" ->
            <<"tool_use " \o b.name \o " " \o (IF b.hasInput THEN b.input ELSE "{}")>>
      [] b.type = "tool_result" -> b.pins
      [] OTHER -> << >>

RECURSIVE BlocksLines(_)
BlocksLines(bs) ==
    IF bs = << >> THEN << >> ELSE BlockLines(Head(bs)) \o BlocksLines(Tail(bs))

\* messageContentToText(m.content).split("\n"): the lines that match.
MatchingLines(m) == IF m.str THEN m.pins ELSE BlocksLines(m.blocks)

\* flatMap, map((l) => l.trim()) and filter(Boolean): the lines of the
\* messages that match, trimmed.
trimAll(lines) ==
    SelectSeq([i \in DOMAIN lines |-> trim(lines[i])], LAMBDA line : line # "")

\* The lines of the messages from message i on.
RECURSIVE allLines(_, _)
allLines(ms, i) ==
    IF i > Len(ms) THEN << >>
    ELSE CHOOSE ls \in { trimAll(matching) \o allLines(ms, i + 1) :
                             matching \in {MatchingLines(ms[i])} } : TRUE

\* Every line cleaned.
cleanAll(lines) == [i \in DOMAIN lines |-> cleaned(lines[i])]

\* The for loop of extractPinnedFacts from the cleaned line i on: a line
\* that is empty or already seen is skipped (seen holds every fact pushed so
\* far: the strings are compared).
RECURSIVE firstOccurrences(_, _)
firstOccurrences(lines, i) ==
    IF i > Len(lines) THEN << >>
    ELSE (IF lines[i] = "" \/ \E j \in 1..(i - 1) : lines[j] = lines[i]
          THEN << >>
          ELSE <<lines[i]>>)
         \o firstOccurrences(lines, i + 1)

\* The loop ends at MAX_PINNED_FACTS facts.
firstFacts(facts) == SubSeq(facts, 1, Min(Len(facts), MAX_PINNED_FACTS))

\* The lines are computed once, then the loop runs on them.
extractPinnedFacts(ms) ==
    CHOOSE facts \in { firstFacts(firstOccurrences(lines, 1)) :
                          lines \in { cleanAll(every) :
                                         every \in { allLines(old, 1) : old \in {ms} } } } : TRUE

\* pinnedFacts.map((f) => `- ${f}`).join("\n").length
RECURSIVE FactBlockChars(_)
FactBlockChars(facts) ==
    IF facts = << >> THEN 0
    ELSE 2 + Len(Head(facts)) + (IF Tail(facts) = << >> THEN 0 ELSE 1)
         + FactBlockChars(Tail(facts))

\* buildSummaryEnvelope(summary, pinnedFacts).length: "Conversation summary:\n"
\* + summary, preceded by the pinned-facts block when there are facts, trimmed
\* (callSummarize returns its summary trimmed).
buildSummaryEnvelopeLen(summary, facts) ==
    (IF facts # << >> THEN 43 + FactBlockChars(facts) + 2 ELSE 0)
    + (IF summary.len > 0 THEN 22 + summary.len ELSE 21)

\* The lines of a summary envelope that match importantPattern: the heading
\* of the facts, the facts behind "- ", "Conversation summary:" and the lines
\* of the summary.
envelopeLines(summary, facts) ==
    (IF facts # << >>
     THEN <<"Pinned facts (verbatim, highest priority):">>
          \o [i \in DOMAIN facts |-> "- " \o facts[i]]
     ELSE << >>)
    \o <<"Conversation summary:">>
    \o summary.pins

buildSummaryEnvelope(summary, facts) ==
    Text(buildSummaryEnvelopeLen(summary, facts), envelopeLines(summary, facts))

summaryMessage(summary, facts) == TextMsg("assistant", buildSummaryEnvelope(summary, facts))

\* compressState once callSummarize has answered with summary.
compressState(state, keepLast, summary) ==
    IF Len(state) <= keepLast THEN state
    ELSE CHOOSE compressed \in
             { <<summaryMessage(summary, pinnedFacts)>> \o SliceLast(state, keepLast) :
                   pinnedFacts \in {extractPinnedFacts(toSummarize(state, keepLast))} } : TRUE

\* The first definition's summaryMessage: { role: "user", content:
\* `Previous context:\n${summary}` }.
summaryMessageFirst(summary) ==
    TextMsg("user", Text(18 + summary.len, <<"Previous context:">> \o summary.pins))

\* The first definition of compressState (context.ts 19-36), once
\* callSummarize has answered.
compressStateFirst(state, keepLast, summary) ==
    IF Len(state) <= keepLast THEN state
    ELSE <<summaryMessageFirst(summary)>> \o SliceLast(state, keepLast)

\* Mutant: the loop drops the newest message.
RECURSIVE TrimOldest_DropsNewest(_, _, _)
TrimOldest_DropsNewest(working, promptChars, maxTokens) ==
    IF Len(working) > 1 /\ estimateTokens(working, promptChars) > maxTokens
    THEN TrimOldest_DropsNewest(SubSeq(working, 1, Len(working) - 1), promptChars, maxTokens)
    ELSE working

\* The hard fallback: while (working.length > 1 && over budget) working = working.slice(1)
RECURSIVE TrimOldest(_, _, _)
TrimOldest(working, promptChars, maxTokens) ==
    IF Len(working) > 1 /\ estimateTokens(working, promptChars) > maxTokens
    THEN TrimOldest(Tail(working), promptChars, maxTokens)
    ELSE working

\* Mutant: every history longer than keepLast is summarized.
NeedsSummary_WhateverTheEstimate(state, promptChars, maxTokens, keepLast) ==
    Len(state) > keepLast

\* ensureUnderBudget up to its first suspension: the value it returns without
\* calling the summarizer, or "summarize" when it awaits compressState.
NeedsSummary(state, promptChars, maxTokens, keepLast) ==
    /\ estimateTokens(state, promptChars) > maxTokens
    /\ Len(state) > keepLast

ensureUnderBudgetSync(state, promptChars, maxTokens, keepLast) ==
    IF estimateTokens(state, promptChars) <= maxTokens THEN state
    ELSE TrimOldest(state, promptChars, maxTokens)

\* ensureUnderBudget after compressState returned.
ensureUnderBudgetResume(state, promptChars, maxTokens, keepLast, summary) ==
    CHOOSE working \in { TrimOldest(compressed, promptChars, maxTokens) :
                             compressed \in {compressState(state, keepLast, summary)} } :
        TRUE

\* The first definition of ensureUnderBudget (context.ts 38-55) up to its
\* return or to the await of compressState: a history within budget is
\* returned as it is, one of keepLast messages or fewer is trimmed.
ensureUnderBudgetFirstSync(state, promptChars, maxTokens, keepLast) ==
    IF estimateTokens(state, promptChars) <= maxTokens THEN state
    ELSE TrimOldest(state, promptChars, maxTokens)

\* The first definition after compressState returned: return compressState(...).
ensureUnderBudgetFirstResume(state, promptChars, maxTokens, keepLast, summary) ==
    compressStateFirst(state, keepLast, summary)

(***************************************************************************)
(* The parts of the state a specification does not use stay as they are    *)
(* here.                                                                   *)
(***************************************************************************)
BudgetIdle ==
    /\ bState = << >> /\ bPrompt = 0 /\ bMax = 0 /\ bKeep = 0
    /\ bPc = "idle" /\ bWorking = << >> /\ bRound = 0

SchedIdle ==
    /\ sBlocks = << >> /\ sParallel = TRUE /\ sIdx = 1 /\ sBatch = << >>
    /\ sRunning = {} /\ sSettled = << >> /\ sStarted = << >> /\ sEnded = << >>
    /\ sResults = << >> /\ sState = << >> /\ sPc = "idle" /\ sOutcome = "none"

DecodeIdle == dStream = << >> /\ dPos = 1 /\ dSt = << >>

TurnIdle ==
    /\ messages = << >> /\ loading = FALSE /\ contextLength = 0
    /\ queuedMessage = 0 /\ lastUserMessage = FALSE /\ acts = << >> /\ submits = 0 /\ roundTrips = 0
    /\ notice = "none"

RetryIdle ==
    /\ rPc = "idle" /\ rAttempt = 0 /\ rStatus = 0 /\ rRetryAfter = 0 /\ rLog = << >>

ToolsIdle ==
    /\ wKey = FALSE /\ wName = "" /\ wQuery = "missing" /\ wCall = "none"
    /\ wPc = "idle" /\ wOut = << >> /\ wSchema = {} /\ wRequests = 0

(***************************************************************************)
(* SpecBudget: ensureUnderBudget as a process with one suspension point    *)
(* (await compressState -> await callSummarize).                           *)
(***************************************************************************)
\* The messages of the histories: a text of the operator, an answer with a
\* line that matches importantPattern, a tool result, and a tool result that
\* is an error of the length of that line.
BudgetMsgs ==
    { StrMsg("user", 2),
      TextMsg("assistant", Text(9, <<"must read">>)),
      BlocksMsg("user", <<ToolResult("t1", 3, 1)>>),
      BlocksMsg("user", <<[ToolResult("t2", 9, 1) EXCEPT !.err = TRUE,
                                                        !.pins = <<"error: no">>]>>) }

RECURSIVE SeqsUpTo(_, _)
SeqsUpTo(S, n) ==
    IF n = 0 THEN { << >> }
    ELSE LET shorter == SeqsUpTo(S, n - 1)
         IN shorter \cup { Append(s, x) : s \in { t \in shorter : Len(t) = n - 1 }, x \in S }

PromptChars == {0, 14}
MaxTokenChoices == {0, 3, 8, 20}
\* What callSummarize returns: the empty string, or one line.
Summaries == { Text(0, << >>), Text(6, <<"Fix it">>) }

BudgetInit ==
    /\ bState \in SeqsUpTo(BudgetMsgs, MaxHist)
    /\ bPrompt \in PromptChars
    /\ bMax \in MaxTokenChoices
    /\ bKeep \in 0..MaxKeepLast
    /\ bPc = "call"
    /\ bWorking = << >>
    /\ bRound = 1
    /\ SchedIdle
    /\ DecodeIdle
    /\ TurnIdle
    /\ RetryIdle
    /\ ToolsIdle

\* Entry of ensureUnderBudget, up to the await of compressState or the return.
BudgetEnter ==
    /\ bPc = "call"
    /\ IF NeedsSummary(bState, bPrompt, bMax, bKeep)
       THEN /\ bPc' = "summarizing"
            /\ UNCHANGED bWorking
       ELSE /\ bPc' = "returned"
            /\ bWorking' = ensureUnderBudgetSync(bState, bPrompt, bMax, bKeep)
    /\ UNCHANGED <<bState, bPrompt, bMax, bKeep, bRound>>
    /\ UNCHANGED <<schedVars, decodeVars, turnVars, retryVars, toolVars>>

\* callSummarize answers: compressState builds [summaryMessage, ...recent], then
\* the trimming loop runs and ensureUnderBudget returns.
SummarizeOk ==
    /\ bPc = "summarizing"
    /\ \E s \in Summaries :
          bWorking' = ensureUnderBudgetResume(bState, bPrompt, bMax, bKeep, s)
    /\ bPc' = "returned"
    /\ UNCHANGED <<bState, bPrompt, bMax, bKeep, bRound>>
    /\ UNCHANGED <<schedVars, decodeVars, turnVars, retryVars, toolVars>>

\* callSummarize throws (non-OK response, connection failure): nothing in
\* compressState or ensureUnderBudget catches it.
SummarizeFail ==
    /\ bPc = "summarizing"
    /\ bPc' = "threw"
    /\ UNCHANGED <<bState, bPrompt, bMax, bKeep, bWorking, bRound>>
    /\ UNCHANGED <<schedVars, decodeVars, turnVars, retryVars, toolVars>>

\* ensureUnderBudget is called again on the history it returned, with the
\* same systemPrompt and options.
BudgetAgain ==
    /\ bPc = "returned"
    /\ bRound = 1
    /\ bState' = bWorking
    /\ bWorking' = << >>
    /\ bPc' = "call"
    /\ bRound' = 2
    /\ UNCHANGED <<bPrompt, bMax, bKeep>>
    /\ UNCHANGED <<schedVars, decodeVars, turnVars, retryVars, toolVars>>

\* Mutant: a history of exactly keepLast messages is summarized too.
CompressEnter_Strict ==
    /\ bPc = "call"
    /\ IF Len(bState) < bKeep
       THEN /\ bPc' = "c_unchanged"
            /\ bWorking' = bState
       ELSE /\ bPc' = "c_summarizing"
            /\ UNCHANGED bWorking
    /\ UNCHANGED <<bState, bPrompt, bMax, bKeep, bRound>>
    /\ UNCHANGED <<schedVars, decodeVars, turnVars, retryVars, toolVars>>

\* compressState called on its own with the same arguments: it returns state
\* at once, or awaits callSummarize.
CompressEnter ==
    /\ bPc = "call"
    /\ IF Len(bState) <= bKeep
       THEN /\ bPc' = "c_unchanged"
            /\ bWorking' = bState
       ELSE /\ bPc' = "c_summarizing"
            /\ UNCHANGED bWorking
    /\ UNCHANGED <<bState, bPrompt, bMax, bKeep, bRound>>
    /\ UNCHANGED <<schedVars, decodeVars, turnVars, retryVars, toolVars>>

\* callSummarize answers: compressState returns [summaryMessage, ...recent].
CompressOk ==
    /\ bPc = "c_summarizing"
    /\ \E s \in Summaries :
          bWorking' = compressState(bState, bKeep, s)
    /\ bPc' = "c_compressed"
    /\ UNCHANGED <<bState, bPrompt, bMax, bKeep, bRound>>
    /\ UNCHANGED <<schedVars, decodeVars, turnVars, retryVars, toolVars>>

\* callSummarize throws, and compressState with it.
CompressFail ==
    /\ bPc = "c_summarizing"
    /\ bPc' = "c_threw"
    /\ UNCHANGED <<bState, bPrompt, bMax, bKeep, bWorking, bRound>>
    /\ UNCHANGED <<schedVars, decodeVars, turnVars, retryVars, toolVars>>

\* Entry of the first definition of ensureUnderBudget (context.ts 38-55), up
\* to the await of compressState or the return.
FirstEnter ==
    /\ bPc = "call"
    /\ bRound = 1
    /\ IF NeedsSummary(bState, bPrompt, bMax, bKeep)
       THEN /\ bPc' = "f_summarizing"
            /\ UNCHANGED bWorking
       ELSE /\ bPc' = "f_returned"
            /\ bWorking' = ensureUnderBudgetFirstSync(bState, bPrompt, bMax, bKeep)
    /\ UNCHANGED <<bState, bPrompt, bMax, bKeep, bRound>>
    /\ UNCHANGED <<schedVars, decodeVars, turnVars, retryVars, toolVars>>

\* callSummarize answers: the first definition returns what its compressState
\* returns, [summaryMessage, ...recent].
FirstSummarizeOk ==
    /\ bPc = "f_summarizing"
    /\ \E s \in Summaries :
          bWorking' = ensureUnderBudgetFirstResume(bState, bPrompt, bMax, bKeep, s)
    /\ bPc' = "f_returned"
    /\ UNCHANGED <<bState, bPrompt, bMax, bKeep, bRound>>
    /\ UNCHANGED <<schedVars, decodeVars, turnVars, retryVars, toolVars>>

\* callSummarize throws, and the first definition with it.
FirstSummarizeFail ==
    /\ bPc = "f_summarizing"
    /\ bPc' = "f_threw"
    /\ UNCHANGED <<bState, bPrompt, bMax, bKeep, bWorking, bRound>>
    /\ UNCHANGED <<schedVars, decodeVars, turnVars, retryVars, toolVars>>

BudgetNext ==
    \/ BudgetEnter
    \/ SummarizeOk
    \/ SummarizeFail
    \/ BudgetAgain
    \/ CompressEnter
    \/ CompressOk
    \/ CompressFail
    \/ FirstEnter
    \/ FirstSummarizeOk
    \/ FirstSummarizeFail

SpecBudget == BudgetInit /\ [][BudgetNext]_vars

(***************************************************************************)
(* SpecSched: the tool calls of one model response (processInput, the      *)
(* body of the for (;;) loop after callApi has answered).                  *)
(***************************************************************************)
\* Mutant: write put on the allow-list.
PARALLEL_SAFE_TOOLS_WithWrite == {"read", "glob", "grep", "web_fetch", "web_search", "write"}

PARALLEL_SAFE_TOOLS == {"read", "glob", "grep", "web_fetch", "web_search"}

\* block.name.trim().toLowerCase(), on the names the model draws from.
normalizeToolName(name) ==
    CASE name = "GREP " -> "grep"
      [] name = "READ" -> "read"
      [] OTHER -> name

\* The keys of TOOLS.
TOOLS == {"read", "write", "edit", "glob", "grep", "bash", "web_fetch", "web_search"}

\* Mutant: the whole registry, whatever the key.
getTools_WithoutKeyTest(braveKey) == TOOLS

\* getTools(): TOOLS, without web_search when no Brave key is set.
getTools(braveKey) == IF braveKey THEN TOOLS ELSE TOOLS \ {"web_search"}

\* A string a tool call ends with: its length, whether it starts with
\* "error:", and its lines that match importantPattern.  Output(n) is a
\* string of n characters that is no error and has no such line,
\* LineOutput(text) the one-line string text, which matches.
Output(n) == [len |-> n, err |-> FALSE, pins |-> << >>]

LineOutput(text) ==
    [len |-> Len(text), err |-> Len(text) >= 6 /\ SubSeq(text, 1, 6) = "error:",
     pins |-> <<text>>]

\* What the implementation of a tool does: it returns a string of n
\* characters, or it throws an Error with this message.
Returns(n) == [throws |-> FALSE, len |-> n, message |-> ""]

Throws(message) == [throws |-> TRUE, len |-> Len(message), message |-> message]

\* runTool(name, args), for a tool implementation impl.
runTool(name, braveKey, impl) ==
    LET canonical == normalizeToolName(name)
    IN IF canonical = "web_search" /\ ~braveKey
       THEN LineOutput("error: Brave Search API key not set. Use /brave or set BRAVE_API_KEY to enable web search.")
       ELSE IF canonical \notin getTools(braveKey)
            THEN LineOutput("error: Unknown tool: " \o canonical)
       ELSE IF impl.throws THEN LineOutput("error: " \o impl.message)
       ELSE Output(impl.len)

\* Mutant: the content is cut without the note.
truncateToolResult_NoNote(n) ==
    IF n <= MAX_TOOL_RESULT_CHARS THEN n ELSE MAX_TOOL_RESULT_CHARS

\* truncateToolResult(content).length
truncateToolResult(n) ==
    IF n <= MAX_TOOL_RESULT_CHARS THEN n ELSE MAX_TOOL_RESULT_CHARS + TRUNCATE_NOTE_CHARS

\* The lines of truncateToolResult(content) that match importantPattern, for
\* a content of one line or without a line that matches: what
\* content.slice(0, MAX_TOOL_RESULT_CHARS) keeps of the line, then the line
\* of TRUNCATE_NOTE.
truncatedPins(out) ==
    IF out.len <= MAX_TOOL_RESULT_CHARS THEN out.pins
    ELSE [i \in DOMAIN out.pins |-> SubSeq(out.pins[i], 1, MAX_TOOL_RESULT_CHARS)]
         \o <<TRUNCATE_NOTE_LINE>>

\* The blocks the for loop plans a call for: it skips texts and every tool_use
\* with !block.name || !block.input.
IsPlanned(b) == b.type = "tool_use" /\ b.name # "" /\ b.hasInput

\* Mutant: every call is batched when parallel calls are enabled.
GoesToBatch_IgnoringList(b, parallel) == parallel

\* ENABLE_PARALLEL_TOOL_CALLS && PARALLEL_SAFE_TOOLS.has(toolName)
GoesToBatch(b, parallel) ==
    parallel /\ normalizeToolName(b.name) \in PARALLEL_SAFE_TOOLS

\* hasMeaningfulAssistantOutput
hasMeaningfulAssistantOutput(bs) ==
    \E i \in DOMAIN bs :
        bs[i].type = "tool_use" \/ (bs[i].type = "text" /\ ~bs[i].blank)

\* renderToolOutcome: the result is truncated and pushed to toolResults, if
\* the block has an id.
renderToolOutcome(results, b, pos, out) ==
    IF b.id # ""
    THEN Append(results, [ToolResult(b.id, truncateToolResult(out.len), pos)
                            EXCEPT !.err = out.err /\ MAX_TOOL_RESULT_CHARS >= 6,
                                   !.pins = truncatedPins(out)])
    ELSE results

\* Mutant: results taken in the order the calls settled.
promiseAllOrder_Completion(batch, ended) ==
    SelectSeq(ended, LAMBDA i : i \in SeqToSet(batch))

\* The order of the array Promise.all resolves to: the order of the promises it
\* was given (batch), whatever order they settled in (ended).
promiseAllOrder(batch, ended) == batch

\* Mutant: the results of a batch that start with "error:" are not rendered.
RECURSIVE renderBatch_DropsErrors(_, _, _, _)
renderBatch_DropsErrors(results, batch, bs, settled) ==
    IF batch = << >> THEN results
    ELSE renderBatch_DropsErrors(
             IF settled[Head(batch)].err THEN results
             ELSE renderToolOutcome(results, bs[Head(batch)], Head(batch),
                                    settled[Head(batch)]),
             Tail(batch), bs, settled)

\* The loop of runParallelBatch over the settled calls.
RECURSIVE renderBatch(_, _, _, _)
renderBatch(results, batch, bs, settled) ==
    IF batch = << >> THEN results
    ELSE renderBatch(renderToolOutcome(results, bs[Head(batch)], Head(batch),
                                       settled[Head(batch)]),
                     Tail(batch), bs, settled)

\* The end of the round-trip: the assistant message, then the tool results in
\* one user message when there are any.
stateAfterRoundTrip(state, bs, results) ==
    IF results = << >> THEN Append(state, BlocksMsg("assistant", bs))
    ELSE state \o <<BlocksMsg("assistant", bs), BlocksMsg("user", results)>>

outcomeOf(results) == IF results = << >> THEN "settled" ELSE "next_model_call"

\* The lengths of the strings a tool returns: MAX_TOOL_RESULT_CHARS exactly,
\* and one character more.
ToolOutputLens == {3500, 3501}

\* getBraveSearchApiKey(): whether a key is set where the calls run.
BraveKeys == {FALSE}

\* What the implementation of a tool does with its arguments: it returns a
\* string, or it throws.
ToolBehaviours ==
    { Returns(n) : n \in ToolOutputLens } \cup { Throws("ENOENT: file") }

\* The content blocks a response can hold at position i.
BlockChoices(i) ==
    LET own == IF i = 1 THEN "t1" ELSE IF i = 2 THEN "t2" ELSE IF i = 3 THEN "t3"
               ELSE IF i = 4 THEN "t4" ELSE "t5"
    IN { TextBlock(4, FALSE),
         ToolUse(own, "read", TRUE),
         ToolUse(own, "GREP ", TRUE),
         ToolUse(own, "write", TRUE),
         ToolUse("", "read", TRUE),
         ToolUse(own, "", TRUE),
         ToolUse(own, "write", FALSE),
         ToolUse(own, "bogus", TRUE) }
       \cup (IF i > 1 THEN { ToolUse("t1", "read", TRUE) } ELSE {})

RECURSIVE ResponsesOfLen(_)
ResponsesOfLen(n) ==
    IF n = 0 THEN { << >> }
    ELSE { Append(r, b) : r \in ResponsesOfLen(n - 1), b \in BlockChoices(n) }

\* Scenario E: three allow-listed calls, then one write.
ScenarioE ==
    << ToolUse("t1", "read", TRUE), ToolUse("t2", "GREP ", TRUE),
       ToolUse("t3", "read", TRUE), ToolUse("t4", "write", TRUE) >>

Responses ==
    UNION { ResponsesOfLen(n) : n \in 0..MaxBlocks } \cup { <<TextBlock(1, TRUE)>>, ScenarioE }

SchedInit ==
    /\ BudgetIdle
    /\ DecodeIdle
    /\ TurnIdle
    /\ RetryIdle
    /\ ToolsIdle
    /\ sBlocks \in Responses
    /\ sParallel \in BOOLEAN
    /\ sIdx = 1
    /\ sBatch = << >>
    /\ sRunning = {}
    /\ sSettled = << >>
    /\ sStarted = << >>
    /\ sEnded = << >>
    /\ sResults = << >>
    /\ sState = << StrMsg("user", 2) >>
    /\ sPc = "check"
    /\ sOutcome = "none"

\* The response has neither a tool_use nor a non-blank text: no message is
\* appended, the loop asks the model again (or stops after the retry bound).
EmptyResponse ==
    /\ sPc = "check"
    /\ ~hasMeaningfulAssistantOutput(sBlocks)
    /\ sPc' = "done"
    /\ sOutcome' = "empty"
    /\ UNCHANGED <<sBlocks, sParallel, sIdx, sBatch, sRunning, sSettled, sStarted,
                   sEnded, sResults, sState>>
    /\ UNCHANGED <<budgetVars, decodeVars, turnVars, retryVars, toolVars>>

MeaningfulResponse ==
    /\ sPc = "check"
    /\ hasMeaningfulAssistantOutput(sBlocks)
    /\ sPc' = "loop"
    /\ UNCHANGED <<sBlocks, sParallel, sIdx, sBatch, sRunning, sSettled, sStarted,
                   sEnded, sResults, sState, sOutcome>>
    /\ UNCHANGED <<budgetVars, decodeVars, turnVars, retryVars, toolVars>>

\* for (const block of contentBlocks): a text, or a tool_use without name or
\* input: continue.
SkipBlock ==
    /\ sPc = "loop"
    /\ sIdx <= Len(sBlocks)
    /\ ~IsPlanned(sBlocks[sIdx])
    /\ sIdx' = sIdx + 1
    /\ UNCHANGED <<sBlocks, sParallel, sBatch, sRunning, sSettled, sStarted,
                   sEnded, sResults, sState, sPc, sOutcome>>
    /\ UNCHANGED <<budgetVars, decodeVars, turnVars, retryVars, toolVars>>

\* A parallel-safe call: parallelBatch.push(planned); continue.
PushParallel ==
    /\ sPc = "loop"
    /\ sIdx <= Len(sBlocks)
    /\ IsPlanned(sBlocks[sIdx])
    /\ GoesToBatch(sBlocks[sIdx], sParallel)
    /\ sBatch' = Append(sBatch, sIdx)
    /\ sIdx' = sIdx + 1
    /\ UNCHANGED <<sBlocks, sParallel, sRunning, sSettled, sStarted,
                   sEnded, sResults, sState, sPc, sOutcome>>
    /\ UNCHANGED <<budgetVars, decodeVars, turnVars, retryVars, toolVars>>

\* Any other call: await runParallelBatch(parallelBatch) first. With an empty
\* batch that returns at once and runTool is called for the block; otherwise
\* runTool is called for every call of the batch, in order, and Promise.all
\* is awaited.
ReachSequential ==
    /\ sPc = "loop"
    /\ sIdx <= Len(sBlocks)
    /\ IsPlanned(sBlocks[sIdx])
    /\ ~GoesToBatch(sBlocks[sIdx], sParallel)
    /\ IF sBatch = << >>
       THEN /\ sRunning' = {sIdx}
            /\ sStarted' = Append(sStarted, sIdx)
            /\ sPc' = "seq"
       ELSE /\ sRunning' = SeqToSet(sBatch)
            /\ sStarted' = sStarted \o sBatch
            /\ sPc' = "batch"
    /\ UNCHANGED <<sBlocks, sParallel, sIdx, sBatch, sSettled, sEnded, sResults,
                   sState, sOutcome>>
    /\ UNCHANGED <<budgetVars, decodeVars, turnVars, retryVars, toolVars>>

\* Call i of the running batch returns, its implementation behaving as impl.
CompleteBatchToolWith(i, impl, braveKey) ==
    /\ sPc = "batch"
    /\ i \in sRunning
    /\ sRunning' = sRunning \ {i}
    /\ sEnded' = Append(sEnded, i)
    /\ sSettled' = (i :> runTool(normalizeToolName(sBlocks[i].name), braveKey, impl))
                       @@ sSettled
    /\ UNCHANGED <<sBlocks, sParallel, sIdx, sBatch, sStarted, sResults, sState,
                   sPc, sOutcome>>
    /\ UNCHANGED <<budgetVars, decodeVars, turnVars, retryVars, toolVars>>

\* One call of the running batch returns; the calls of a batch return in any
\* order.
CompleteBatchTool ==
    \E i \in sRunning, impl \in ToolBehaviours, braveKey \in BraveKeys :
        CompleteBatchToolWith(i, impl, braveKey)

\* Promise.all has every result: runParallelBatch renders them in batch order
\* and returns. In the loop, runTool is then called for the block that made
\* the batch run; after the loop, the round-trip ends.
DrainBatch ==
    /\ sPc = "batch"
    /\ sRunning = {}
    /\ LET results == renderBatch(sResults, promiseAllOrder(sBatch, sEnded), sBlocks, sSettled)
       IN /\ sResults' = results
          /\ sBatch' = << >>
          /\ sSettled' = << >>
          /\ IF sIdx <= Len(sBlocks)
             THEN /\ sRunning' = {sIdx}
                  /\ sStarted' = Append(sStarted, sIdx)
                  /\ sPc' = "seq"
                  /\ UNCHANGED <<sState, sOutcome>>
             ELSE /\ sState' = stateAfterRoundTrip(sState, sBlocks, results)
                  /\ sOutcome' = outcomeOf(results)
                  /\ sPc' = "done"
                  /\ UNCHANGED <<sRunning, sStarted>>
    /\ UNCHANGED <<sBlocks, sParallel, sIdx, sEnded>>
    /\ UNCHANGED <<budgetVars, decodeVars, turnVars, retryVars, toolVars>>

\* The call run on its own returns, its implementation behaving as impl:
\* renderToolOutcome, next block.
CompleteSequentialToolWith(impl, braveKey) ==
    /\ sPc = "seq"
    /\ sResults' = renderToolOutcome(sResults, sBlocks[sIdx], sIdx,
                       runTool(normalizeToolName(sBlocks[sIdx].name), braveKey, impl))
    /\ sRunning' = {}
    /\ sEnded' = Append(sEnded, sIdx)
    /\ sIdx' = sIdx + 1
    /\ sPc' = "loop"
    /\ UNCHANGED <<sBlocks, sParallel, sBatch, sSettled, sStarted, sState, sOutcome>>
    /\ UNCHANGED <<budgetVars, decodeVars, turnVars, retryVars, toolVars>>

CompleteSequentialTool ==
    \E impl \in ToolBehaviours, braveKey \in BraveKeys :
        CompleteSequentialToolWith(impl, braveKey)

\* After the loop: await runParallelBatch(parallelBatch), then the messages
\* of the round-trip are appended to state.
EndOfLoop ==
    /\ sPc = "loop"
    /\ sIdx = Len(sBlocks) + 1
    /\ IF sBatch = << >>
       THEN /\ sState' = stateAfterRoundTrip(sState, sBlocks, sResults)
            /\ sOutcome' = outcomeOf(sResults)
            /\ sPc' = "done"
            /\ UNCHANGED <<sRunning, sStarted>>
       ELSE /\ sRunning' = SeqToSet(sBatch)
            /\ sStarted' = sStarted \o sBatch
            /\ sPc' = "batch"
            /\ UNCHANGED <<sState, sOutcome>>
    /\ UNCHANGED <<sBlocks, sParallel, sIdx, sBatch, sSettled, sEnded, sResults>>
    /\ UNCHANGED <<budgetVars, decodeVars, turnVars, retryVars, toolVars>>

SchedNext ==
    \/ EmptyResponse
    \/ MeaningfulResponse
    \/ SkipBlock
    \/ PushParallel
    \/ ReachSequential
    \/ CompleteBatchTool
    \/ DrainBatch
    \/ CompleteSequentialTool
    \/ EndOfLoop

SpecSched == SchedInit /\ [][SchedNext]_vars

(***************************************************************************)
(* SpecModes: the same round-trip with deterministic tools: the call at a  *)
(* position of the response does the same thing whenever it runs, with     *)
(* parallel calls enabled or not.                                          *)
(***************************************************************************)
\* What the tool does for the call at position pos.
DeterministicTool(pos) ==
    IF pos % 2 = 1 THEN Returns(3501) ELSE Throws("ENOENT: file")

CompleteBatchToolOf ==
    \E i \in sRunning : CompleteBatchToolWith(i, DeterministicTool(i), FALSE)

CompleteSequentialToolOf ==
    /\ sPc = "seq"
    /\ CompleteSequentialToolWith(DeterministicTool(sIdx), FALSE)

ModesNext ==
    \/ EmptyResponse
    \/ MeaningfulResponse
    \/ SkipBlock
    \/ PushParallel
    \/ ReachSequential
    \/ CompleteBatchToolOf
    \/ DrainBatch
    \/ CompleteSequentialToolOf
    \/ EndOfLoop

SpecModes == SchedInit /\ [][ModesNext]_vars

(***************************************************************************)
(* SpecDecode: callApiStream.  A string is a sequence of characters; the   *)
(* arguments strings are JSON texts over the characters of JsonChars.      *)
(***************************************************************************)
JsonChars == {"{", "}", "\"", ":", "a", "1", " "}

\* s.trim() is not empty.
NonBlank(s) == \E i \in DOMAIN s : s[i] # " "

\* The first position from i on that holds no white space (Len(s) + 1: none).
RECURSIVE SkipWs(_, _)
SkipWs(s, i) == IF i <= Len(s) /\ s[i] = " " THEN SkipWs(s, i + 1) ELSE i

\* The first position from i on that holds c (Len(s) + 1: none).
RECURSIVE IndexOf(_, _, _)
IndexOf(s, c, i) == IF i <= Len(s) /\ s[i] # c THEN IndexOf(s, c, i + 1) ELSE i

\* The first position from i on that holds no digit.
RECURSIVE SkipDigits(_, _)
SkipDigits(s, i) == IF i <= Len(s) /\ s[i] = "1" THEN SkipDigits(s, i + 1) ELSE i

ParseFail == [ok |-> FALSE, val |-> <<"none">>, next |-> 0]

\* A JSON string literal starting at the quote at j.
ParseString(s, j) ==
    LET k == IndexOf(s, "\"", j + 1)
    IN IF k > Len(s) THEN ParseFail
       ELSE [ok |-> TRUE, val |-> <<"str", SubSeq(s, j + 1, k - 1)>>, next |-> k + 1]

\* A JSON number starting at the digit at j (the digits are all 1, so the
\* number of digits is the number).
ParseNumber(s, j) ==
    LET k == SkipDigits(s, j)
    IN [ok |-> TRUE, val |-> <<"num", k - j>>, next |-> k]

\* A JSON value from position i on: white space, then an object with at most
\* one member, a string or a number.
RECURSIVE ParseValue(_, _)
ParseValue(s, i) ==
    LET j == SkipWs(s, i)
    IN IF j > Len(s) THEN ParseFail
       ELSE IF s[j] = "\"" THEN ParseString(s, j)
       ELSE IF s[j] = "1" THEN ParseNumber(s, j)
       ELSE IF s[j] # "{" THEN ParseFail
       ELSE LET k == SkipWs(s, j + 1)
            IN IF k > Len(s) THEN ParseFail
               ELSE IF s[k] = "}" THEN [ok |-> TRUE, val |-> <<"obj">>, next |-> k + 1]
               ELSE IF s[k] # "\"" THEN ParseFail
               ELSE LET key == ParseString(s, k)
                        c == SkipWs(s, key.next)
                    IN IF ~key.ok \/ c > Len(s) THEN ParseFail
                       ELSE IF s[c] # ":" THEN ParseFail
                       ELSE LET v == ParseValue(s, c + 1)
                                e == SkipWs(s, v.next)
                            IN IF ~v.ok \/ e > Len(s) THEN ParseFail
                               ELSE IF s[e] # "}" THEN ParseFail
                               ELSE [ok |-> TRUE,
                                     val |-> <<"obj", key.val, v.val>>,
                                     next |-> e + 1]

\* JSON.parse(s): the value, or a failure (the SyntaxError).
JSONparse(s) ==
    LET r == ParseValue(s, 1)
    IN IF r.ok /\ SkipWs(s, r.next) > Len(s) THEN r ELSE ParseFail

EmptyObject == <<"obj">>

\* The content blocks of the decoder.
DText(text) ==
    [type |-> "text", text |-> text, id |-> "", name |-> "", input |-> <<"none">>]

DToolUse(id, name, input) ==
    [type |-> "tool_use", text |-> << >>, id |-> id, name |-> name, input |-> input]

Slots == 0..MaxSlot

\* toolAccum[i] = { arguments: "" }
EmptyAccum == [id |-> "", name |-> "", arguments |-> << >>]

\* The locals of callApiStream, with where the function is: returned, rejected
\* with error, or suspended in the await of onToolCall for slot at, in the
\* emission loop of a line ("emit") or in flushRemainingToolCalls ("flush");
\* fin says that the line being handled carries finish_reason, and lines are
\* the lines of the chunk still to be handled.
DecoderStart ==
    [toolAccum |-> [i \in Slots |-> EmptyAccum],
     contentBlocks |-> << >>,
     textAccum |-> << >>,
     textBlockIndex |-> 0,
     returned |-> FALSE,
     error |-> "none",
     awaiting |-> "none",
     at |-> 0,
     fin |-> FALSE,
     lines |-> << >>]

\* callApiStream waits for reader.read().
Reading(st) == ~st.returned /\ st.error = "none" /\ st.awaiting = "none"

\* An exception leaves every loop: callApiStream rejects with it.
throw(st, err) ==
    [st EXCEPT !.error = err, !.awaiting = "none", !.at = 0, !.fin = FALSE,
               !.lines = << >>]

\* tryEmitToolCall(index) gets as far as the call of onToolCall.
CallsBack(st, index) ==
    LET t == st.toolAccum[index]
    IN /\ t.id # ""
       /\ t.name # ""
       /\ ~NonBlank(t.arguments) \/ JSONparse(t.arguments).ok

\* tryEmitToolCall(index), the promise of onToolCall fulfilling or rejecting
\* (a callback that throws rejects the same await).
tryEmitToolCall(st, index, fulfils) ==
    LET t == st.toolAccum[index]
        parsed == JSONparse(t.arguments)
    IN IF t.id = "" \/ t.name = "" THEN st
       ELSE IF NonBlank(t.arguments) /\ ~parsed.ok THEN st
       ELSE IF ~fulfils THEN throw(st, "onToolCall")
       ELSE [st EXCEPT
               !.contentBlocks =
                   Append(@, DToolUse(t.id, t.name,
                                      IF NonBlank(t.arguments) THEN parsed.val
                                      ELSE EmptyObject)),
               !.toolAccum[index] = EmptyAccum]

\* for (let i = 0; i < toolAccum.length; i++) await tryEmitToolCall(i), from
\* slot i up to the next call of onToolCall; not entered after an exception.
RECURSIVE tryEmitFrom(_, _)
tryEmitFrom(st, i) ==
    IF st.error # "none" \/ i > MaxSlot THEN st
    ELSE IF CallsBack(st, i) THEN [st EXCEPT !.awaiting = "emit", !.at = i]
    ELSE tryEmitFrom(tryEmitToolCall(st, i, TRUE), i + 1)

\* flushRemainingToolCalls, from slot i up to the next call of onToolCall.
RECURSIVE flushFrom(_, _)
flushFrom(st, i) ==
    IF i > MaxSlot THEN st
    ELSE IF st.toolAccum[i].id # "" /\ st.toolAccum[i].name # ""
         THEN IF CallsBack(st, i) THEN [st EXCEPT !.awaiting = "flush", !.at = i]
              ELSE flushFrom(tryEmitToolCall(st, i, TRUE), i + 1)
         ELSE flushFrom(st, i + 1)

flushRemainingToolCalls(st) == flushFrom(st, 0)

\* finish(): the text block gets the whole text, and the return leaves the
\* loops. (With no text block there is no text either: the branch that puts
\* one in front never runs.)
finish(st) ==
    [(IF st.textBlockIndex > 0
      THEN [st EXCEPT !.contentBlocks[st.textBlockIndex] = DText(st.textAccum)]
      ELSE IF NonBlank(st.textAccum)
           THEN [st EXCEPT !.contentBlocks = <<DText(st.textAccum)>> \o @]
           ELSE st)
     EXCEPT !.returned = TRUE, !.fin = FALSE, !.lines = << >>]

\* return finish(), once flushRemainingToolCalls has come back.
finishWhenFlushed(st) == IF st.awaiting # "none" THEN st ELSE finish(st)

\* await flushRemainingToolCalls(); return finish()
flushAndFinish(st) == finishWhenFlushed(flushRemainingToolCalls(st))

\* if (finishReason) { ... }, once the emission loop of the line has come
\* back.
afterToolCalls(st) ==
    IF st.error # "none" \/ st.awaiting # "none" THEN st
    ELSE IF st.fin THEN flushAndFinish([st EXCEPT !.fin = FALSE])
    ELSE st

\* Mutant: every text delta pushes a text block of its own.
applyContent_PushEach(st, content) ==
    IF content = << >> THEN st
    ELSE LET text == st.textAccum \o content
         IN [st EXCEPT !.textAccum = text,
                       !.contentBlocks = Append(@, DText(text)),
                       !.textBlockIndex = Len(st.contentBlocks) + 1]

\* delta.content, when it is a non-empty string.
applyContent(st, content) ==
    IF content = << >> THEN st
    ELSE LET text == st.textAccum \o content
         IN IF st.textBlockIndex = 0
            THEN [st EXCEPT !.textAccum = text,
                            !.contentBlocks = Append(@, DText(text)),
                            !.textBlockIndex = Len(st.contentBlocks) + 1]
            ELSE [st EXCEPT !.textAccum = text,
                            !.contentBlocks[st.textBlockIndex] = DText(text)]

\* One entry d of delta.tool_calls: id and name overwrite when not empty,
\* arguments are appended; d.index of a null entry throws.
applyFragment(st, d) ==
    IF d.isNull THEN throw(st, "TypeError")
    ELSE [st EXCEPT !.toolAccum[d.index] =
            [id |-> IF d.id # "" THEN d.id ELSE @.id,
             name |-> IF d.name # "" THEN d.name ELSE @.name,
             arguments |-> IF d.hasArgs THEN @.arguments \o d.arguments
                           ELSE @.arguments]]

RECURSIVE applyFragments(_, _)
applyFragments(st, tc) ==
    IF tc = << >> \/ st.error # "none" THEN st
    ELSE applyFragments(applyFragment(st, Head(tc)), Tail(tc))

\* delta.tool_calls, when it is an array: every fragment, then an emission
\* attempt for every slot, up to the first call of onToolCall.
applyToolCalls(st, ev) ==
    IF ev.hasToolCalls THEN tryEmitFrom(applyFragments(st, ev.tool_calls), 0) ELSE st

\* One parsed event line with choices[0].delta, up to the first call of
\* onToolCall.
applyDelta(st, ev) ==
    afterToolCalls(applyToolCalls([applyContent(st, ev.content)
                                      EXCEPT !.fin = ev.finish_reason], ev))

\* An event line.
Fragment(index, id, name, hasArgs, arguments) ==
    [index |-> index, id |-> id, name |-> name, hasArgs |-> hasArgs,
     arguments |-> arguments, isNull |-> FALSE]

\* A null among the entries of delta.tool_calls.
NullEntry ==
    [index |-> 0, id |-> "", name |-> "", hasArgs |-> FALSE,
     arguments |-> << >>, isNull |-> TRUE]

DeltaEvent(content, hasToolCalls, tc, fin) ==
    [kind |-> "delta", content |-> content, hasToolCalls |-> hasToolCalls,
     tool_calls |-> tc, finish_reason |-> fin]

DoneEvent == [kind |-> "done", content |-> << >>, hasToolCalls |-> FALSE,
              tool_calls |-> << >>, finish_reason |-> FALSE]

\* The lines of a byte stream.  A line is two characters of text and a
\* newline, so that a chunk can end inside a line.
\* A line of the stream: with or without the "data: " prefix, its payload
\* "[DONE]", a JSON text (of the value ev) or something JSON.parse rejects.
StreamLine(prefix, data, ev) == [prefix |-> prefix, data |-> data, ev |-> ev]

\* A JSON value that is no object: a number, a string, true, false or null.
PrimitiveValue(truthy) == [kind |-> "primitive", truthy |-> truthy]

NoLine == StreamLine(FALSE, "none", DoneEvent)

NullChunk == [kind |-> "null"]

\* Mutant: the payload is parsed whether or not the line has the prefix.
parseStreamChunk_AnyPrefix(line) ==
    IF line.data = "[DONE]" THEN DoneEvent
    ELSE IF line.data = "json" THEN line.ev
    ELSE NullChunk

\* parseStreamChunk(line)
parseStreamChunk(line) ==
    IF line.prefix
    THEN IF line.data = "[DONE]" THEN DoneEvent
         ELSE IF line.data = "json" THEN line.ev
         ELSE NullChunk
    ELSE NullChunk

\* The characters of a line, and the newline.
FirstHalf(line) == [c |-> "a", line |-> line]

SecondHalf(line) == [c |-> "b", line |-> line]

Newline == [c |-> "nl", line |-> NoLine]

LineText(line) == <<FirstHalf(line), SecondHalf(line), Newline>>

\* The line a text between two newlines is, when it is one.
lineOfText(text) ==
    IF /\ Len(text) = 2
       /\ text[1].c = "a"
       /\ text[2].c = "b"
       /\ text[1].line = text[2].line
    THEN text[1].line
    ELSE NoLine

\* buffer.split("\n") and lines.pop(): the complete lines of the buffer and
\* what follows the last newline.
RECURSIVE splitLines(_, _, _)
splitLines(text, lines, cur) ==
    IF text = << >> THEN [lines |-> lines, rest |-> cur]
    ELSE IF Head(text).c = "nl" THEN splitLines(Tail(text), Append(lines, cur), << >>)
    ELSE splitLines(Tail(text), lines, Append(cur, Head(text)))

\* Mutant: the delta of the line that carries finish_reason is dropped.
processLine_FinishFirst(st, line) ==
    LET parsed == parseStreamChunk(lineOfText(line))
    IN IF parsed.kind = "null" THEN st
       ELSE IF parsed.kind = "primitive"
            THEN IF parsed.truthy THEN throw(st, "TypeError") ELSE st
       ELSE IF parsed.kind = "done" THEN flushAndFinish(st)
       ELSE IF parsed.finish_reason THEN flushAndFinish(st)
       ELSE applyDelta(st, parsed)

\* The body of for (const line of lines) for one line, up to the first call
\* of onToolCall: !parsed skips null and every other falsy value, and
\* "__done" in parsed throws on a value that is no object.
processLine(st, line) ==
    LET parsed == parseStreamChunk(lineOfText(line))
    IN IF parsed.kind = "null" THEN st
       ELSE IF parsed.kind = "primitive"
            THEN IF parsed.truthy THEN throw(st, "TypeError") ELSE st
       ELSE IF parsed.kind = "done" THEN flushAndFinish(st)
       ELSE applyDelta(st, parsed)

\* for (const line of lines), left by a return or an exception and suspended
\* by a call of onToolCall, with the lines behind it kept.
RECURSIVE processLines(_, _)
processLines(st, lines) ==
    IF ~Reading(st) THEN st
    ELSE IF lines = << >> THEN [st EXCEPT !.lines = << >>]
    ELSE processLines(processLine([st EXCEPT !.lines = Tail(lines)], Head(lines)),
                      Tail(lines))

\* Behind tryEmitToolCall(i - 1): the loop that called it goes on, and then
\* the rest of the line.
restOfLine(st, loop, i) ==
    IF st.error # "none" THEN st
    ELSE IF loop = "emit" THEN afterToolCalls(tryEmitFrom(st, i))
    ELSE finishWhenFlushed(flushFrom(st, i))

\* The lines left of the chunk.
restOfChunk(st) == processLines(st, st.lines)

\* The promise of onToolCall settles: tryEmitToolCall goes on, then the loop
\* that called it, the rest of the line and the lines left of the chunk, up
\* to the next call of onToolCall.
resume(st, fulfils) ==
    restOfChunk(restOfLine(tryEmitToolCall([st EXCEPT !.awaiting = "none", !.at = 0],
                                           st.at, fulfils),
                           st.awaiting, st.at + 1))

\* The run from st on with an onToolCall that fulfils every time.
RECURSIVE fulfilAll(_)
fulfilAll(st) == IF st.awaiting = "none" THEN st ELSE fulfilAll(resume(st, TRUE))

\* The whole loop for a fixed list of event lines and an onToolCall that
\* fulfils: the locals after the lines from position i on, up to the first
\* return or exception.
RECURSIVE decodeFrom(_, _, _)
decodeFrom(st, stream, i) ==
    IF ~Reading(st) THEN st
    ELSE IF i > Len(stream) THEN fulfilAll(flushAndFinish(st))
    ELSE decodeFrom(fulfilAll(IF stream[i].kind = "done" THEN flushAndFinish(st)
                              ELSE applyDelta(st, stream[i])),
                    stream, i + 1)

\* The arguments strings: every JSON text of up to MaxArgLen characters, and
\* two longer ones (Scenario D's shape, and one with leading white space).
ScenarioDArgs == <<"{", "\"", "a", "\"", ":", " ", "\"", "a", "\"", "}">>

LeadingSpaceArgs == <<" ", "{", "\"", "a", "\"", ":", "1", "}">>

ArgStrings ==
    { s \in SeqsUpTo(JsonChars, MaxArgLen) : JSONparse(s).ok }
        \cup { ScenarioDArgs, LeadingSpaceArgs }

\* The cuts of s into n non-empty fragments, each a sequence of fragments.
RECURSIVE CutsInto(_, _)
CutsInto(s, n) ==
    IF n = 1 THEN IF s = << >> THEN {} ELSE { <<s>> }
    ELSE UNION { { <<SubSeq(s, 1, k)>> \o rest :
                     rest \in CutsInto(SubSeq(s, k + 1, Len(s)), n - 1) } :
                 k \in 1..(Len(s) - 1) }

Cuts(s) == UNION { CutsInto(s, n) : n \in 1..MaxFragments }

\* The stream that feeds the fragments to one slot, one event per fragment,
\* id and name with the first, and ends as `ending` says: a [DONE] line, a
\* finish_reason on an event of its own, or the end of the byte stream.
FragmentEvents(slot, frags) ==
    [k \in DOMAIN frags |->
        DeltaEvent(<< >>, TRUE,
                   <<Fragment(slot, IF k = 1 THEN "t1" ELSE "",
                              IF k = 1 THEN "read" ELSE "", TRUE, frags[k])>>,
                   FALSE)]

Ending(ending) ==
    CASE ending = "done" -> <<DoneEvent>>
      [] ending = "finish_reason" -> <<DeltaEvent(<< >>, FALSE, << >>, TRUE)>>
      [] OTHER -> << >>

Endings == {"done", "finish_reason", "eof"}

FragmentStreams ==
    { FragmentEvents(slot, frags) \o Ending(e) :
        slot \in Slots, frags \in UNION { Cuts(s) : s \in ArgStrings }, e \in Endings }

DecodeInit ==
    /\ BudgetIdle
    /\ SchedIdle
    /\ TurnIdle
    /\ RetryIdle
    /\ ToolsIdle
    /\ dStream \in FragmentStreams
    /\ dPos = 1
    /\ dSt = DecoderStart

\* A line with choices[0].delta is read, and handled up to the first call of
\* onToolCall.
DecodeDelta ==
    /\ dSt # << >>
    /\ Reading(dSt)
    /\ dPos <= Len(dStream)
    /\ dStream[dPos].kind = "delta"
    /\ dSt' = applyDelta(dSt, dStream[dPos])
    /\ dPos' = dPos + 1
    /\ UNCHANGED dStream
    /\ UNCHANGED <<budgetVars, schedVars, turnVars, retryVars, toolVars>>

\* The line "data: [DONE]" is read.
DecodeDone ==
    /\ dSt # << >>
    /\ Reading(dSt)
    /\ dPos <= Len(dStream)
    /\ dStream[dPos].kind = "done"
    /\ dSt' = flushAndFinish(dSt)
    /\ dPos' = dPos + 1
    /\ UNCHANGED dStream
    /\ UNCHANGED <<budgetVars, schedVars, turnVars, retryVars, toolVars>>

\* reader.read() reports done: the byte stream ended without a finish signal.
DecodeEndOfStream ==
    /\ dSt # << >>
    /\ Reading(dSt)
    /\ dPos = Len(dStream) + 1
    /\ dSt' = flushAndFinish(dSt)
    /\ UNCHANGED <<dStream, dPos>>
    /\ UNCHANGED <<budgetVars, schedVars, turnVars, retryVars, toolVars>>

\* The promise of onToolCall fulfils: the block is pushed and the run goes on.
ToolCallFulfils ==
    /\ dSt # << >>
    /\ dSt.awaiting # "none"
    /\ dSt' = resume(dSt, TRUE)
    /\ UNCHANGED <<dStream, dPos>>
    /\ UNCHANGED <<budgetVars, schedVars, turnVars, retryVars, toolVars>>

\* onToolCall throws, or its promise rejects: callApiStream rejects.
ToolCallRejects ==
    /\ dSt # << >>
    /\ dSt.awaiting # "none"
    /\ dSt' = resume(dSt, FALSE)
    /\ UNCHANGED <<dStream, dPos>>
    /\ UNCHANGED <<budgetVars, schedVars, turnVars, retryVars, toolVars>>

DecodeNext ==
    \/ DecodeDelta
    \/ DecodeDone
    \/ DecodeEndOfStream
    \/ ToolCallFulfils
    \/ ToolCallRejects

SpecDecode == DecodeInit /\ [][DecodeNext]_vars

(***************************************************************************)
(* SpecStream: callApiStream on streams that mix text deltas with the      *)
(* tool-call fragments of two slots: a fragment that carries id and name   *)
(* and no arguments (alone or with a text delta on the same line),         *)
(* arguments that complete over two fragments, a blank fragment, a slot    *)
(* whose id and name come in separate fragments, two whole calls on one    *)
(* line, and a tool_calls array with a null behind a fragment.             *)
(***************************************************************************)
OpenArgs == <<"{", "\"", "a", "\"">>

CloseArgs == <<":", "1", "}">>

StreamEvents ==
    { DeltaEvent(<<"h">>, FALSE, << >>, FALSE),
      DeltaEvent(<<"i">>, FALSE, << >>, FALSE),
      DeltaEvent(<< >>, TRUE, <<Fragment(0, "t1", "read", FALSE, << >>)>>, FALSE),
      DeltaEvent(<<"j">>, TRUE, <<Fragment(0, "t1", "read", FALSE, << >>)>>, FALSE),
      DeltaEvent(<< >>, TRUE, <<Fragment(0, "", "", TRUE, OpenArgs)>>, FALSE),
      DeltaEvent(<< >>, TRUE, <<Fragment(0, "", "", TRUE, CloseArgs)>>, FALSE),
      DeltaEvent(<< >>, TRUE, <<Fragment(0, "", "", TRUE, <<" ">>)>>, FALSE),
      DeltaEvent(<< >>, TRUE, <<Fragment(1, "t2", "", TRUE, <<"{", "}">>)>>, FALSE),
      DeltaEvent(<< >>, TRUE, <<Fragment(1, "", "grep", FALSE, << >>)>>, FALSE),
      DeltaEvent(<< >>, TRUE,
                 <<Fragment(0, "t1", "read", TRUE, <<"{", "}">>),
                   Fragment(1, "t2", "grep", TRUE, <<"{", "}">>)>>, FALSE),
      DeltaEvent(<< >>, TRUE, <<Fragment(1, "t2", "", FALSE, << >>), NullEntry>>,
                 FALSE) }

EventStreams ==
    { evs \o Ending(e) : evs \in SeqsUpTo(StreamEvents, MaxEvents), e \in Endings }

StreamInit ==
    /\ BudgetIdle
    /\ SchedIdle
    /\ TurnIdle
    /\ RetryIdle
    /\ ToolsIdle
    /\ dStream \in EventStreams
    /\ dPos = 1
    /\ dSt = DecoderStart

SpecStream == StreamInit /\ [][DecodeNext]_vars

(***************************************************************************)
(* SpecChunks: the read loop of callApiStream on a byte stream.  A line is *)
(* two characters of text and a newline, so that a chunk can end inside a  *)
(* line; dStream is the list of chunks, dPos the next chunk, and dSt the   *)
(* locals of callApiStream with the buffer.                                *)
(***************************************************************************)
\* Mutant: the buffer is not kept from one chunk to the next.
readChunk_DropsBuffer(st, chunk) ==
    LET split == splitLines(chunk, << >>, << >>)
    IN processLines([st EXCEPT !.buffer = split.rest], split.lines)

\* One round of while (true) with a chunk read.
readChunk(st, chunk) ==
    LET split == splitLines(st.buffer \o chunk, << >>, << >>)
    IN processLines([st EXCEPT !.buffer = split.rest], split.lines)

\* The whole loop over the chunks from position i on, with an onToolCall
\* that fulfils.
RECURSIVE readFrom(_, _, _)
readFrom(st, chunks, i) ==
    IF ~Reading(st) THEN st
    ELSE IF i > Len(chunks) THEN fulfilAll(flushAndFinish(st))
    ELSE readFrom(fulfilAll(readChunk(st, chunks[i])), chunks, i + 1)

ReaderStart ==
    [toolAccum |-> [i \in Slots |-> EmptyAccum],
     contentBlocks |-> << >>,
     textAccum |-> << >>,
     textBlockIndex |-> 0,
     returned |-> FALSE,
     error |-> "none",
     awaiting |-> "none",
     at |-> 0,
     fin |-> FALSE,
     lines |-> << >>,
     buffer |-> << >>]

FinishReasonLine ==
    StreamLine(TRUE, "json", DeltaEvent(<<"k">>, FALSE, << >>, TRUE))

DoneLine == StreamLine(TRUE, "[DONE]", DoneEvent)

StreamLines ==
    { StreamLine(TRUE, "json", DeltaEvent(<<"h">>, FALSE, << >>, FALSE)),
      StreamLine(TRUE, "json",
                 DeltaEvent(<< >>, TRUE,
                            <<Fragment(0, "t1", "read", TRUE, <<"{", "}">>),
                              Fragment(1, "t2", "grep", TRUE, OpenArgs)>>,
                            FALSE)),
      FinishReasonLine,
      DoneLine,
      StreamLine(FALSE, "json", DeltaEvent(<<"x">>, FALSE, << >>, FALSE)),
      StreamLine(TRUE, "bad", DoneEvent),
      StreamLine(TRUE, "json", PrimitiveValue(TRUE)) }

RECURSIVE BytesOf(_)
BytesOf(lines) ==
    IF lines = << >> THEN << >> ELSE LineText(Head(lines)) \o BytesOf(Tail(lines))

\* What may follow the last newline: nothing, or the start of a line.
Tails == { << >>, <<FirstHalf(DoneLine)>> }

ByteStreams ==
    { BytesOf(lines) \o tail : lines \in SeqsUpTo(StreamLines, MaxLines), tail \in Tails }

\* The ways reader.read() can deliver the bytes: in up to MaxChunks chunks.
ChunkCuts(bytes) ==
    IF bytes = << >> THEN { << >> }
    ELSE UNION { CutsInto(bytes, n) : n \in 1..MaxChunks }

ChunksInit ==
    /\ BudgetIdle
    /\ SchedIdle
    /\ TurnIdle
    /\ RetryIdle
    /\ ToolsIdle
    /\ dStream \in UNION { ChunkCuts(bytes) : bytes \in ByteStreams }
    /\ dPos = 1
    /\ dSt = ReaderStart

\* reader.read() delivers a chunk: its lines are handled up to the first
\* call of onToolCall.
ReadChunk ==
    /\ dSt # << >>
    /\ Reading(dSt)
    /\ dPos <= Len(dStream)
    /\ dSt' = readChunk(dSt, dStream[dPos])
    /\ dPos' = dPos + 1
    /\ UNCHANGED dStream
    /\ UNCHANGED <<budgetVars, schedVars, turnVars, retryVars, toolVars>>

\* Mutant: a stream that ends without a finish signal gives no blocks.
ReadEnd_Discards ==
    /\ dSt # << >>
    /\ Reading(dSt)
    /\ dPos = Len(dStream) + 1
    /\ dSt' = [dSt EXCEPT !.contentBlocks = << >>, !.returned = TRUE]
    /\ UNCHANGED <<dStream, dPos>>
    /\ UNCHANGED <<budgetVars, schedVars, turnVars, retryVars, toolVars>>

\* reader.read() reports done.
ReadEnd ==
    /\ dSt # << >>
    /\ Reading(dSt)
    /\ dPos = Len(dStream) + 1
    /\ dSt' = flushAndFinish(dSt)
    /\ UNCHANGED <<dStream, dPos>>
    /\ UNCHANGED <<budgetVars, schedVars, turnVars, retryVars, toolVars>>

ChunksNext == ReadChunk \/ ReadEnd \/ ToolCallFulfils \/ ToolCallRejects

SpecChunks == ChunksInit /\ [][ChunksNext]_vars

(***************************************************************************)
(* SpecRuns: two calls of callApiStream whose responses carry the same     *)
(* bytes, that is the same event lines.  reader.read() delivers them to    *)
(* the first call in one chunk and to the second in any chunks, each call  *)
(* awaits its own onToolCall, and the steps of the two calls interleave.   *)
(* dStream, dPos and dSt hold one entry per call; dSt[r] is << >> until    *)
(* call r is made.                                                         *)
(***************************************************************************)
Runs == {1, 2}

OtherRun(r) == 3 - r

RunLines ==
    { StreamLine(TRUE, "json", DeltaEvent(<<"h">>, FALSE, << >>, FALSE)),
      StreamLine(TRUE, "json",
                 DeltaEvent(<< >>, TRUE,
                            <<Fragment(0, "t1", "read", TRUE, <<"{", "}">>),
                              Fragment(1, "t2", "grep", TRUE, OpenArgs)>>,
                            FALSE)),
      StreamLine(TRUE, "json",
                 DeltaEvent(<< >>, TRUE, <<Fragment(1, "", "", TRUE, CloseArgs)>>, FALSE)),
      DoneLine }

RunStreams ==
    { BytesOf(lines) \o tail : lines \in SeqsUpTo(RunLines, MaxLines), tail \in Tails }

RunsInit ==
    /\ BudgetIdle
    /\ SchedIdle
    /\ TurnIdle
    /\ RetryIdle
    /\ ToolsIdle
    /\ \E bytes \in RunStreams :
          dStream \in { <<one, cut>> : one \in ChunkCuts(bytes) \cap SeqsUpTo({bytes}, 1),
                                       cut \in ChunkCuts(bytes) }
    /\ dPos = <<1, 1>>
    /\ dSt = << << >>, << >> >>

\* Mutant: toolAccum is shared: a call starts with what the other call has
\* accumulated.
RunCall_SharedAccum(r) ==
    /\ dSt[r] = << >>
    /\ dSt' = [dSt EXCEPT ![r] =
                  IF dSt[OtherRun(r)] = << >> THEN ReaderStart
                  ELSE [ReaderStart EXCEPT !.toolAccum = dSt[OtherRun(r)].toolAccum]]
    /\ UNCHANGED <<dStream, dPos>>
    /\ UNCHANGED <<budgetVars, schedVars, turnVars, retryVars, toolVars>>

\* callApiStream is called and the response has come: buffer, contentBlocks,
\* textAccum, textBlockIndex and toolAccum are locals of the call.
RunCall(r) ==
    /\ dSt[r] = << >>
    /\ dSt' = [dSt EXCEPT ![r] = ReaderStart]
    /\ UNCHANGED <<dStream, dPos>>
    /\ UNCHANGED <<budgetVars, schedVars, turnVars, retryVars, toolVars>>

\* reader.read() delivers a chunk to call r.
RunReadChunk(r) ==
    /\ dSt[r] # << >>
    /\ Reading(dSt[r])
    /\ dPos[r] <= Len(dStream[r])
    /\ dSt' = [dSt EXCEPT ![r] = readChunk(dSt[r], dStream[r][dPos[r]])]
    /\ dPos' = [dPos EXCEPT ![r] = dPos[r] + 1]
    /\ UNCHANGED dStream
    /\ UNCHANGED <<budgetVars, schedVars, turnVars, retryVars, toolVars>>

\* reader.read() reports done to call r.
RunReadEnd(r) ==
    /\ dSt[r] # << >>
    /\ Reading(dSt[r])
    /\ dPos[r] = Len(dStream[r]) + 1
    /\ dSt' = [dSt EXCEPT ![r] = flushAndFinish(dSt[r])]
    /\ UNCHANGED <<dStream, dPos>>
    /\ UNCHANGED <<budgetVars, schedVars, turnVars, retryVars, toolVars>>

\* The promise of onToolCall that call r awaits fulfils.
RunToolCallFulfils(r) ==
    /\ dSt[r] # << >>
    /\ dSt[r].awaiting # "none"
    /\ dSt' = [dSt EXCEPT ![r] = resume(dSt[r], TRUE)]
    /\ UNCHANGED <<dStream, dPos>>
    /\ UNCHANGED <<budgetVars, schedVars, turnVars, retryVars, toolVars>>

\* The promise of onToolCall that call r awaits rejects: call r rejects.
RunToolCallRejects(r) ==
    /\ dSt[r] # << >>
    /\ dSt[r].awaiting # "none"
    /\ dSt' = [dSt EXCEPT ![r] = resume(dSt[r], FALSE)]
    /\ UNCHANGED <<dStream, dPos>>
    /\ UNCHANGED <<budgetVars, schedVars, turnVars, retryVars, toolVars>>

RunsNext ==
    \E r \in Runs :
        \/ RunCall(r)
        \/ RunReadChunk(r)
        \/ RunReadEnd(r)
        \/ RunToolCallFulfils(r)
        \/ RunToolCallRejects(r)

SpecRuns == RunsInit /\ [][RunsNext]_vars

(***************************************************************************)
(* Spec: the Repl component (src/src/repl.tsx).  The operator's keys call   *)
(* handleSubmit, which calls processInput; every await of processInput is   *)
(* a point where the other handlers run.  One call of handleSubmit is one   *)
(* entry of acts.                                                          *)
(***************************************************************************)
CONTEXT_WINDOW_K == 128
KEEP_LAST == 8
MAX_EMPTY_ASSISTANT_RETRIES == 3

\* systemPrompt.length: the template is 999 characters long, cwd is "/home/user".
SystemPromptChars == 1009

\* Math.floor((modelContext ?? CONTEXT_WINDOW_K * 1024) * 0.85); contextLength
\* is 0 when modelList has no entry for the current model.
maxContextTokens(ctx) ==
    ((IF ctx = 0 THEN CONTEXT_WINDOW_K * 1024 ELSE ctx) * 85) \div 100

\* context_length of the current model: not in modelList, or 4096.
ModelContexts == {0, 4096}

\* The length of the texts the operator submits.
UserTextLen == 9150

\* "!ls" and its output
ShellCommandLen == 3
ShellOutputLen == 5

\* The text the operator queues with Tab.
QueuedTextLen == 2

\* What the tools return in a turn: a result longer than MAX_TOOL_RESULT_CHARS.
TurnToolOutputLen == 3501

\* The summary callSummarize returns.
TurnSummary == Text(6, <<"Fix it">>)

\* The responses of the model in round-trip number trips of a turn.
TurnToolUseId(trips) == IF trips = 0 THEN "t1" ELSE IF trips = 1 THEN "t2" ELSE "t3"

BlankResponse == <<TextBlock(1, TRUE)>>

AnswerResponse == <<TextBlock(20, FALSE)>>

ToolResponse(trips) == <<ToolUse(TurnToolUseId(trips), "read", TRUE)>>

\* The loop over contentBlocks, with every tool returning a string of outLen
\* characters: the toolResults of the round-trip.
RECURSIVE toolResultsFrom(_, _, _, _)
toolResultsFrom(results, bs, pos, outLen) ==
    IF pos > Len(bs) THEN results
    ELSE toolResultsFrom(IF IsPlanned(bs[pos])
                         THEN renderToolOutcome(results, bs[pos], pos,
                                  runTool(normalizeToolName(bs[pos].name), TRUE,
                                          Returns(outLen)))
                         ELSE results,
                         bs, pos + 1, outLen)

\* A settled turn with one round-trip, as processInput leaves it in messages.
SettledTurn ==
    << StrMsg("user", UserTextLen),
       BlocksMsg("assistant", ToolResponse(0)),
       BlocksMsg("user", toolResultsFrom(<< >>, ToolResponse(0), 1, TurnToolOutputLen)),
       BlocksMsg("assistant", AnswerResponse) >>

\* What loadConversation(cwd) returns: nothing saved, or the turns of an
\* earlier run.
SavedConversations == { << >>, SettledTurn \o SettledTurn }

\* stale is a history field: the call holds messages from before a /clear
\* (those of the conversation it cleared, or of a turn then in progress).
IdleAct ==
    [pc |-> "idle", snap |-> << >>, state |-> << >>,
     retries |-> 0, trips |-> 0, second |-> FALSE, resp |-> << >>,
     ctx |-> 0, stale |-> FALSE]

\* processInput on a text that is neither a shell command nor a slash command,
\* up to its first await that waits for the network.  snap is the messages of
\* the closure, kept while handleSubmit can still call processInput again, and
\* ctx the context_length its modelList has for its currentModel.
ProcessText(snap, ctx, n, second) ==
    LET state == Append(snap, StrMsg("user", n))
        maxTokens == maxContextTokens(ctx)
        closure == IF second THEN << >> ELSE snap
    IN IF NeedsSummary(state, SystemPromptChars, maxTokens, KEEP_LAST)
       THEN [IdleAct EXCEPT !.pc = "summarizing", !.snap = closure, !.state = state,
                            !.second = second, !.ctx = ctx]
       ELSE [IdleAct EXCEPT !.pc = "model", !.snap = closure,
                            !.state = ensureUnderBudgetSync(state, SystemPromptChars,
                                                            maxTokens, KEEP_LAST),
                            !.second = second, !.ctx = ctx]

\* handleSubmit after processInput returned true: the queued message, if any,
\* is processed by the same closure.  ld is the value of loading otherwise.
AfterProcessInput(a, act, ld) ==
    IF ~act.second /\ queuedMessage # 0
    THEN /\ queuedMessage' = 0
         /\ acts' = [acts EXCEPT ![a] =
                        [ProcessText(act.snap, act.ctx, queuedMessage, TRUE)
                            EXCEPT !.stale = act.stale /\ act.snap # << >>]]
         /\ lastUserMessage' = TRUE
         /\ loading' = TRUE
    ELSE /\ acts' = [acts EXCEPT ![a] = IdleAct]
         /\ loading' = ld
         /\ UNCHANGED <<queuedMessage, lastUserMessage>>

\* The catch of handleSubmit.
CatchError(a) ==
    /\ acts' = [acts EXCEPT ![a] = IdleAct]
    /\ loading' = FALSE
    /\ notice' = "error"
    /\ UNCHANGED <<queuedMessage, lastUserMessage>>

FreeAct(a) ==
    /\ a \in DOMAIN acts
    /\ acts[a].pc = "idle"
    /\ \A b \in DOMAIN acts : b < a => acts[b].pc # "idle"

Init ==
    /\ BudgetIdle
    /\ SchedIdle
    /\ DecodeIdle
    /\ RetryIdle
    /\ ToolsIdle
    /\ messages \in SavedConversations
    /\ loading = FALSE
    /\ contextLength = 0
    /\ queuedMessage = 0
    /\ lastUserMessage = FALSE
    /\ acts = [a \in 1..MaxActs |-> IdleAct]
    /\ submits = 0
    /\ roundTrips = 0
    /\ notice = "none"

\* Enter on a text for the model.  The handler is the one of the last render:
\* its closure holds the messages of that render.
SubmitText(a, n) ==
    /\ FreeAct(a)
    /\ submits < MaxSubmits
    /\ submits' = submits + 1
    /\ UNCHANGED roundTrips
    /\ acts' = [acts EXCEPT ![a] = ProcessText(messages, contextLength, n, FALSE)]
    /\ lastUserMessage' = TRUE
    /\ loading' = TRUE
    /\ UNCHANGED <<messages, contextLength, notice, queuedMessage>>
    /\ UNCHANGED <<budgetVars, schedVars, decodeVars, retryVars, toolVars>>

\* A call of handleSubmit that is in progress when /clear is processed goes
\* on with the messages it holds (history field only).
InProgressAtClear(act) ==
    IF act.pc = "idle" THEN act ELSE [act EXCEPT !.stale = TRUE]

\* /clear chosen in the palette or among the slash suggestions (Enter on a
\* typed "/clear" is that): the key handler calls processInput itself, which
\* does setMessages([]) and returns.
SelectClear ==
    /\ submits < MaxSubmits
    /\ submits' = submits + 1
    /\ messages' = << >>
    /\ acts' = [b \in DOMAIN acts |-> InProgressAtClear(acts[b])]
    /\ notice' = "none"
    /\ UNCHANGED <<loading, contextLength, queuedMessage, lastUserMessage, roundTrips>>
    /\ UNCHANGED <<budgetVars, schedVars, decodeVars, retryVars, toolVars>>

\* Enter on an input line that handleSubmit hands to processInput and that
\* processInput answers with true without an await: an empty or blank line,
\* "!" alone, or /palette or /status behind a blank (which keeps the
\* suggestions closed).  handleSubmit goes on to the queued message; without
\* one nothing changes.
SubmitNothing(a) ==
    /\ FreeAct(a)
    /\ queuedMessage # 0
    /\ submits < MaxSubmits
    /\ submits' = submits + 1
    /\ AfterProcessInput(a, [IdleAct EXCEPT !.snap = messages, !.ctx = contextLength],
                         loading)
    /\ UNCHANGED <<messages, contextLength, notice, roundTrips>>
    /\ UNCHANGED <<budgetVars, schedVars, decodeVars, retryVars, toolVars>>

\* Enter on a line that trims to /models, /brave, /help or /?: handleSubmit
\* opens the selector or the modal itself and returns.  processInput is not
\* called and the queued message stays where it is; openModelSelector is not
\* awaited (its models list arrives as ModelsListed, and nothing catches its
\* exception).
SubmitModalCommand ==
    /\ submits < MaxSubmits
    /\ submits' = submits + 1
    /\ UNCHANGED <<messages, loading, contextLength, notice, queuedMessage, lastUserMessage,
                   acts, roundTrips>>
    /\ UNCHANGED <<budgetVars, schedVars, decodeVars, retryVars, toolVars>>

\* Enter on " /model" (the alias of /models; handleSubmit takes only the
\* text "/models" itself): processInput awaits openModelSelector, which
\* awaits fetchModels.
SubmitModels(a) ==
    /\ FreeAct(a)
    /\ submits < MaxSubmits
    /\ submits' = submits + 1
    /\ acts' = [acts EXCEPT ![a] = [IdleAct EXCEPT !.pc = "listing", !.snap = messages,
                                                   !.ctx = contextLength]]
    /\ UNCHANGED <<messages, loading, contextLength, notice, queuedMessage, lastUserMessage,
                   roundTrips>>
    /\ UNCHANGED <<budgetVars, schedVars, decodeVars, retryVars, toolVars>>

\* fetchModels has answered the call of openModelSelector: setModelList (the
\* current model has context_length c in the list), processInput returns
\* true and handleSubmit goes on to the queued message, with the messages
\* and the models list of its closure.
ModelsFetched(a, c) ==
    /\ a \in DOMAIN acts
    /\ acts[a].pc = "listing"
    /\ contextLength' = c
    /\ AfterProcessInput(a, acts[a], loading)
    /\ UNCHANGED <<messages, notice, submits, roundTrips>>
    /\ UNCHANGED <<budgetVars, schedVars, decodeVars, retryVars, toolVars>>

\* fetchModels has thrown (a response that is not OK) in a processInput that
\* handleSubmit awaits: the catch of handleSubmit.
ModelsFetchFails(a) ==
    /\ a \in DOMAIN acts
    /\ acts[a].pc = "listing"
    /\ CatchError(a)
    /\ UNCHANGED <<messages, contextLength, submits, roundTrips>>
    /\ UNCHANGED <<budgetVars, schedVars, decodeVars, retryVars, toolVars>>

\* /models chosen in the palette: the key handler calls processInput itself,
\* and fetchModels has thrown.  The catch of the key handler logs the error:
\* loading and the queued message are left as they are.
PaletteModelsFetchFails ==
    /\ submits < MaxSubmits
    /\ submits' = submits + 1
    /\ notice' = "error"
    /\ UNCHANGED <<messages, loading, contextLength, queuedMessage, lastUserMessage, acts,
                   roundTrips>>
    /\ UNCHANGED <<budgetVars, schedVars, decodeVars, retryVars, toolVars>>

\* Enter on /clear through handleSubmit (a blank before the slash keeps the
\* suggestions closed): setMessages([]), then handleSubmit goes on as after
\* any processInput that returned true.
SubmitClear(a) ==
    /\ FreeAct(a)
    /\ submits < MaxSubmits
    /\ submits' = submits + 1
    /\ UNCHANGED roundTrips
    /\ messages' = << >>
    /\ IF queuedMessage # 0
       THEN /\ queuedMessage' = 0
            /\ acts' = [b \in DOMAIN acts |->
                            IF b = a
                            THEN [ProcessText(messages, contextLength, queuedMessage,
                                              TRUE)
                                     EXCEPT !.stale = messages # << >>]
                            ELSE InProgressAtClear(acts[b])]
            /\ lastUserMessage' = TRUE
            /\ loading' = TRUE
       ELSE /\ acts' = [b \in DOMAIN acts |-> InProgressAtClear(acts[b])]
            /\ UNCHANGED <<queuedMessage, lastUserMessage, loading>>
    /\ notice' = "none"
    /\ UNCHANGED contextLength
    /\ UNCHANGED <<budgetVars, schedVars, decodeVars, retryVars, toolVars>>

\* Enter on !cmd: processInput awaits runTool("bash").
SubmitShell(a) ==
    /\ FreeAct(a)
    /\ submits < MaxSubmits
    /\ submits' = submits + 1
    /\ UNCHANGED roundTrips
    /\ acts' = [acts EXCEPT ![a] = [IdleAct EXCEPT !.pc = "shell", !.snap = messages,
                                                   !.ctx = contextLength]]
    /\ UNCHANGED <<messages, loading, contextLength, notice, queuedMessage, lastUserMessage>>
    /\ UNCHANGED <<budgetVars, schedVars, decodeVars, retryVars, toolVars>>

\* The shell command has returned outLen characters.
ShellDone(a, outLen) ==
    /\ a \in DOMAIN acts
    /\ acts[a].pc = "shell"
    /\ messages' = Append(messages, StrMsg("user", ShellCommandLen + 5 + outLen))
    /\ AfterProcessInput(a, acts[a], loading)
    /\ UNCHANGED <<contextLength, notice, submits, roundTrips>>
    /\ UNCHANGED <<budgetVars, schedVars, decodeVars, retryVars, toolVars>>

\* callSummarize has answered: ensureUnderBudget returns, the loop is entered
\* (setLoading(true)) and callApi is called.
TurnSummarizeOk(a, summary) ==
    /\ a \in DOMAIN acts
    /\ acts[a].pc = "summarizing"
    /\ acts' = [acts EXCEPT ![a].pc = "model",
                            ![a].state = ensureUnderBudgetResume(acts[a].state,
                                SystemPromptChars, maxContextTokens(acts[a].ctx),
                                KEEP_LAST, summary)]
    /\ loading' = TRUE
    /\ UNCHANGED <<messages, contextLength, notice, queuedMessage, lastUserMessage,
                   submits, roundTrips>>
    /\ UNCHANGED <<budgetVars, schedVars, decodeVars, retryVars, toolVars>>

\* callSummarize has thrown: nothing catches it before handleSubmit.
TurnSummarizeFail(a) ==
    /\ a \in DOMAIN acts
    /\ acts[a].pc = "summarizing"
    /\ CatchError(a)
    /\ UNCHANGED <<messages, contextLength, submits, roundTrips>>
    /\ UNCHANGED <<budgetVars, schedVars, decodeVars, retryVars, toolVars>>

\* callApi has thrown.
ModelFails(a) ==
    /\ a \in DOMAIN acts
    /\ acts[a].pc = "model"
    /\ CatchError(a)
    /\ UNCHANGED <<messages, contextLength, submits, roundTrips>>
    /\ UNCHANGED <<budgetVars, schedVars, decodeVars, retryVars, toolVars>>

\* Mutant: an empty response is retried whatever the count.
ModelEmptyRetry_Unbounded(a, bs) ==
    /\ a \in DOMAIN acts
    /\ acts[a].pc = "model"
    /\ ~hasMeaningfulAssistantOutput(bs)
    /\ acts' = [acts EXCEPT ![a].retries = acts[a].retries + 1]
    /\ loading' = TRUE
    /\ UNCHANGED <<messages, contextLength, notice, queuedMessage, lastUserMessage,
                   submits, roundTrips>>
    /\ UNCHANGED <<budgetVars, schedVars, decodeVars, retryVars, toolVars>>

\* A response without meaningful output, retried: continue, and the top of
\* the loop (setLoading(true)).
ModelEmptyRetry(a, bs) ==
    /\ a \in DOMAIN acts
    /\ acts[a].pc = "model"
    /\ ~hasMeaningfulAssistantOutput(bs)
    /\ acts[a].retries + 1 <= MAX_EMPTY_ASSISTANT_RETRIES
    /\ acts' = [acts EXCEPT ![a].retries = acts[a].retries + 1]
    /\ loading' = TRUE
    /\ UNCHANGED <<messages, contextLength, notice, queuedMessage, lastUserMessage,
                   submits, roundTrips>>
    /\ UNCHANGED <<budgetVars, schedVars, decodeVars, retryVars, toolVars>>

\* Mutant: the empty response is appended before the turn stops.
ModelEmptyGiveUp_Appends(a, bs) ==
    /\ a \in DOMAIN acts
    /\ acts[a].pc = "model"
    /\ ~hasMeaningfulAssistantOutput(bs)
    /\ acts[a].retries + 1 > MAX_EMPTY_ASSISTANT_RETRIES
    /\ messages' = Append(acts[a].state, BlocksMsg("assistant", bs))
    /\ AfterProcessInput(a, acts[a], FALSE)
    /\ notice' = "empty_output"
    /\ UNCHANGED <<contextLength, submits, roundTrips>>
    /\ UNCHANGED <<budgetVars, schedVars, decodeVars, retryVars, toolVars>>

\* Mutant: after the last retry the count starts over and the model is
\* called again.
ModelEmptyGiveUp_StartsOver(a, bs) ==
    /\ a \in DOMAIN acts
    /\ acts[a].pc = "model"
    /\ ~hasMeaningfulAssistantOutput(bs)
    /\ acts[a].retries + 1 > MAX_EMPTY_ASSISTANT_RETRIES
    /\ acts' = [acts EXCEPT ![a].retries = 0]
    /\ loading' = TRUE
    /\ UNCHANGED <<messages, contextLength, notice, queuedMessage, lastUserMessage,
                   submits, roundTrips>>
    /\ UNCHANGED <<budgetVars, schedVars, decodeVars, retryVars, toolVars>>

\* A response without meaningful output after the last retry: the turn stops.
ModelEmptyGiveUp(a, bs) ==
    /\ a \in DOMAIN acts
    /\ acts[a].pc = "model"
    /\ ~hasMeaningfulAssistantOutput(bs)
    /\ acts[a].retries + 1 > MAX_EMPTY_ASSISTANT_RETRIES
    /\ messages' = acts[a].state
    /\ AfterProcessInput(a, acts[a], FALSE)
    /\ notice' = "empty_output"
    /\ UNCHANGED <<contextLength, submits, roundTrips>>
    /\ UNCHANGED <<budgetVars, schedVars, decodeVars, retryVars, toolVars>>

\* Mutant: the turn settles without setMessages(state).
ModelAnswers_NotAdopted(a, bs) ==
    /\ a \in DOMAIN acts
    /\ acts[a].pc = "model"
    /\ hasMeaningfulAssistantOutput(bs)
    /\ \A i \in DOMAIN bs : ~IsPlanned(bs[i])
    /\ messages' = messages
    /\ AfterProcessInput(a, acts[a], FALSE)
    /\ UNCHANGED <<contextLength, notice, submits, roundTrips>>
    /\ UNCHANGED <<budgetVars, schedVars, decodeVars, retryVars, toolVars>>

\* A response that plans no tool call: the assistant message is appended and
\* the turn settles.
ModelAnswers(a, bs) ==
    /\ a \in DOMAIN acts
    /\ acts[a].pc = "model"
    /\ hasMeaningfulAssistantOutput(bs)
    /\ \A i \in DOMAIN bs : ~IsPlanned(bs[i])
    /\ messages' = stateAfterRoundTrip(acts[a].state, bs, << >>)
    /\ AfterProcessInput(a, acts[a], FALSE)
    /\ UNCHANGED <<contextLength, notice, submits, roundTrips>>
    /\ UNCHANGED <<budgetVars, schedVars, decodeVars, retryVars, toolVars>>

\* A response that plans tool calls: processInput awaits them.
ModelRequestsTools(a, bs) ==
    /\ a \in DOMAIN acts
    /\ acts[a].pc = "model"
    /\ roundTrips < MaxRoundTrips
    /\ roundTrips' = roundTrips + 1
    /\ hasMeaningfulAssistantOutput(bs)
    /\ \E i \in DOMAIN bs : IsPlanned(bs[i])
    /\ acts' = [acts EXCEPT ![a].pc = "tools", ![a].resp = bs, ![a].retries = 0]
    /\ UNCHANGED <<messages, loading, contextLength, notice, queuedMessage, lastUserMessage,
                   submits>>
    /\ UNCHANGED <<budgetVars, schedVars, decodeVars, retryVars, toolVars>>

\* Mutant: the history is trimmed to the budget after every round-trip.
ToolsDone_Rebudget(a, outLen) ==
    /\ a \in DOMAIN acts
    /\ acts[a].pc = "tools"
    /\ LET results == toolResultsFrom(<< >>, acts[a].resp, 1, outLen)
           state == TrimOldest(stateAfterRoundTrip(acts[a].state, acts[a].resp, results),
                               SystemPromptChars, maxContextTokens(acts[a].ctx))
       IN /\ messages' = state
          /\ IF results = << >>
             THEN AfterProcessInput(a, acts[a], FALSE)
             ELSE /\ acts' = [acts EXCEPT ![a].pc = "model", ![a].state = state,
                                          ![a].trips = acts[a].trips + 1,
                                          ![a].resp = << >>]
                  /\ loading' = TRUE
                  /\ UNCHANGED <<queuedMessage, lastUserMessage>>
    /\ UNCHANGED <<contextLength, notice, submits, roundTrips>>
    /\ UNCHANGED <<budgetVars, schedVars, decodeVars, retryVars, toolVars>>

\* The tool calls of the response have returned: the assistant message and the
\* tool results are appended and the model is called again, from the top of
\* the loop (setLoading(true)); without any tool result the turn settles.
ToolsDone(a, outLen) ==
    /\ a \in DOMAIN acts
    /\ acts[a].pc = "tools"
    /\ LET results == toolResultsFrom(<< >>, acts[a].resp, 1, outLen)
           state == stateAfterRoundTrip(acts[a].state, acts[a].resp, results)
       IN /\ messages' = state
          /\ IF results = << >>
             THEN AfterProcessInput(a, acts[a], FALSE)
             ELSE /\ acts' = [acts EXCEPT ![a].pc = "model", ![a].state = state,
                                          ![a].trips = acts[a].trips + 1,
                                          ![a].resp = << >>]
                  /\ loading' = TRUE
                  /\ UNCHANGED <<queuedMessage, lastUserMessage>>
    /\ UNCHANGED <<contextLength, notice, submits, roundTrips>>
    /\ UNCHANGED <<budgetVars, schedVars, decodeVars, retryVars, toolVars>>

\* Tab on a text of n characters.
QueueMessage(n) ==
    /\ queuedMessage # n
    /\ submits < MaxSubmits
    /\ submits' = submits + 1
    /\ UNCHANGED roundTrips
    /\ queuedMessage' = n
    /\ UNCHANGED <<messages, loading, contextLength, notice, lastUserMessage, acts>>
    /\ UNCHANGED <<budgetVars, schedVars, decodeVars, retryVars, toolVars>>

\* The models list has been fetched (at mount, or for the selector opened
\* by handleSubmit on /models, from the suggestions or from the palette), or
\* the selector has set the current model: the context_length of the current
\* model becomes c.
ModelsListed(c) ==
    /\ c # contextLength
    /\ submits < MaxSubmits
    /\ submits' = submits + 1
    /\ contextLength' = c
    /\ UNCHANGED <<messages, loading, notice, queuedMessage, lastUserMessage, acts,
                   roundTrips>>
    /\ UNCHANGED <<budgetVars, schedVars, decodeVars, retryVars, toolVars>>

\* Escape twice on an empty input line.
EditPrevious ==
    /\ lastUserMessage
    /\ messages # << >>
    /\ messages[Len(messages)].role = "user"
    /\ messages' = SubSeq(messages, 1, Len(messages) - 1)
    /\ UNCHANGED <<loading, contextLength, notice, queuedMessage, lastUserMessage, acts, submits, roundTrips>>
    /\ UNCHANGED <<budgetVars, schedVars, decodeVars, retryVars, toolVars>>

Next ==
    \/ \E a \in 1..MaxActs : SubmitText(a, UserTextLen)
    \/ \E a \in 1..MaxActs : SubmitNothing(a)
    \/ SubmitModalCommand
    \/ \E a \in 1..MaxActs : SubmitModels(a)
    \/ \E a \in 1..MaxActs, c \in ModelContexts : ModelsFetched(a, c)
    \/ \E a \in 1..MaxActs : ModelsFetchFails(a)
    \/ PaletteModelsFetchFails
    \/ \E a \in 1..MaxActs : SubmitClear(a)
    \/ SelectClear
    \/ \E c \in ModelContexts : ModelsListed(c)
    \/ \E a \in 1..MaxActs : SubmitShell(a)
    \/ \E a \in 1..MaxActs : ShellDone(a, ShellOutputLen)
    \/ \E a \in 1..MaxActs : TurnSummarizeOk(a, TurnSummary)
    \/ \E a \in 1..MaxActs : TurnSummarizeFail(a)
    \/ \E a \in 1..MaxActs : ModelFails(a)
    \/ \E a \in 1..MaxActs : ModelEmptyRetry(a, BlankResponse)
    \/ \E a \in 1..MaxActs : ModelEmptyGiveUp(a, BlankResponse)
    \/ \E a \in 1..MaxActs : ModelAnswers(a, AnswerResponse)
    \/ \E a \in 1..MaxActs : ModelRequestsTools(a, ToolResponse(acts[a].trips))
    \/ \E a \in 1..MaxActs : ToolsDone(a, TurnToolOutputLen)
    \/ QueueMessage(QueuedTextLen)
    \/ EditPrevious

Spec == Init /\ [][Next]_vars

\* The model call of activation a returns or throws.
ModelReturns(a) ==
    \/ ModelFails(a)
    \/ ModelEmptyRetry(a, BlankResponse)
    \/ ModelEmptyGiveUp(a, BlankResponse)
    \/ ModelAnswers(a, AnswerResponse)
    \/ ModelRequestsTools(a, ToolResponse(acts[a].trips))

\* The call of fetchModels returns or throws.
ModelsReturn(a) ==
    (\E c \in ModelContexts : ModelsFetched(a, c)) \/ ModelsFetchFails(a)

\* The call of the summarizer returns or throws.
SummarizerReturns(a) ==
    TurnSummarizeOk(a, TurnSummary) \/ TurnSummarizeFail(a)

\* The steps of model turns: texts submitted with Enter or queued with Tab,
\* and what the calls they await come back with.
LiveNext ==
    \/ \E a \in 1..MaxActs : SubmitText(a, UserTextLen)
    \/ \E a \in 1..MaxActs : SubmitNothing(a)
    \/ \E a \in 1..MaxActs : SubmitModels(a)
    \/ \E a \in 1..MaxActs : ModelsReturn(a)
    \/ QueueMessage(QueuedTextLen)
    \/ \E c \in ModelContexts : ModelsListed(c)
    \/ \E a \in 1..MaxActs : SummarizerReturns(a)
    \/ \E a \in 1..MaxActs : ModelReturns(a)
    \/ \E a \in 1..MaxActs : ToolsDone(a, TurnToolOutputLen)

\* One of the calls awaited comes back.
CallComesBack ==
    \E a \in 1..MaxActs :
        \/ ModelReturns(a)
        \/ SummarizerReturns(a)
        \/ ToolsDone(a, TurnToolOutputLen)
        \/ ModelsReturn(a)

\* The turns of the Repl when every call they await comes back: the model,
\* the summarizer and the tools return or throw.  That the model ends up
\* answering without tool calls is the cap on the round-trips.
SpecLive ==
    /\ Init
    /\ [][LiveNext]_vars
    /\ WF_vars(CallComesBack)

(***************************************************************************)
(* SpecRetry: the model calls of one turn.  The loop of processInput calls  *)
(* callApi(apiKey, state, systemPrompt, currentModel, { onRetry }); callApi *)
(* takes four parameters, sends one request and throws on a response that   *)
(* is not OK.                                                              *)
(***************************************************************************)
\* res.ok: the status is one of 200..299.
ResOk(status) == status >= 200 /\ status <= 299

\* The statuses the endpoint answers with.
ResponseStatuses == {200, 400, 401, 403, 429, 500, 502, 503}

\* The wait the response asks for in milliseconds, 0 without a hint.
RetryHints == {0, 500, 2000}

\* What processInput does with a response: it ends the turn's calls (text,
\* or empty output for the last time), or calls the model again (tool
\* results to send, or an empty response that is retried).
ResponseKinds == {"last", "again"}

RetryInit ==
    /\ BudgetIdle
    /\ SchedIdle
    /\ DecodeIdle
    /\ TurnIdle
    /\ ToolsIdle
    /\ rPc = "loop"
    /\ rAttempt = 0
    /\ rStatus = 0
    /\ rRetryAfter = 0
    /\ rLog = << >>

\* The top of for (;;): callApi is called and sends its request.
CallApi ==
    /\ rPc = "loop"
    /\ rAttempt < MaxCalls
    /\ rPc' = "fetching"
    /\ rAttempt' = rAttempt + 1
    /\ rStatus' = 0
    /\ rRetryAfter' = 0
    /\ UNCHANGED rLog
    /\ UNCHANGED <<budgetVars, schedVars, decodeVars, turnVars, toolVars>>

\* The endpoint answers OK: callApi returns res.json(), and processInput
\* ends the calls of the turn or goes round the loop.
RespondOk(status, hint, kind) ==
    /\ rPc = "fetching"
    /\ ResOk(status)
    /\ kind = "again" => rAttempt < MaxCalls
    /\ rPc' = IF kind = "again" THEN "loop" ELSE "returned"
    /\ rStatus' = status
    /\ rRetryAfter' = hint
    /\ UNCHANGED <<rAttempt, rLog>>
    /\ UNCHANGED <<budgetVars, schedVars, decodeVars, turnVars, toolVars>>

\* The endpoint answers with a status that is not OK: callApi throws
\* `API ${res.status}: ...`, whatever the status and the headers; no request
\* follows and onRetry is not called.
RespondNotOk(status, hint) ==
    /\ rPc = "fetching"
    /\ ~ResOk(status)
    /\ rPc' = "thrown"
    /\ rStatus' = status
    /\ rRetryAfter' = hint
    /\ UNCHANGED <<rAttempt, rLog>>
    /\ UNCHANGED <<budgetVars, schedVars, decodeVars, turnVars, toolVars>>

RetryNext ==
    \/ CallApi
    \/ \E status \in ResponseStatuses, hint \in RetryHints, kind \in ResponseKinds :
          RespondOk(status, hint, kind)
    \/ \E status \in ResponseStatuses, hint \in RetryHints : RespondNotOk(status, hint)

SpecRetry == RetryInit /\ [][RetryNext]_vars

(***************************************************************************)
(* SpecTools: one call of makeSchema(), of runTool(name, {query}) or of     *)
(* webSearch({query}), with or without a Brave key.                         *)
(***************************************************************************)
\* makeSchema(): one entry for each key of getTools(); its names.
makeSchema(braveKey) == getTools(braveKey)

\* Mutant: the query is not looked at.
webSearch_AnyQuery(query, braveKey) ==
    IF ~braveKey
    THEN [request |-> FALSE,
          out |-> LineOutput("error: Brave Search API key not set. Use /brave or set BRAVE_API_KEY (https://brave.com/search/api).")]
    ELSE [request |-> TRUE, out |-> << >>]

\* webSearch(args) up to its await: the error string it returns at once, or
\* the request to the Brave Search API.
webSearch(query, braveKey) ==
    IF query \in {"missing", "blank"}
    THEN [request |-> FALSE, out |-> LineOutput("error: query is required")]
    ELSE IF ~braveKey
    THEN [request |-> FALSE,
          out |-> LineOutput("error: Brave Search API key not set. Use /brave or set BRAVE_API_KEY (https://brave.com/search/api).")]
    ELSE [request |-> TRUE, out |-> << >>]

\* What braveSearchApi ends with: results, "No results found.", an
\* "error: Brave Search API <status>: ..." string (here with an empty body),
\* "error: <message>" for an answer with a message, or a throw that webSearch
\* turns into "error: Brave Search API failed. <message>".
SearchOutcomes ==
    { Output(120), LineOutput("No results found."),
      LineOutput("error: Brave Search API 500: "), LineOutput("error: rate limit"),
      LineOutput("error: Brave Search API failed. fetch failed") }

ToolCallNames == {"web_search", "read", "READ", "bogus"}

ToolsInit ==
    /\ BudgetIdle
    /\ SchedIdle
    /\ DecodeIdle
    /\ TurnIdle
    /\ RetryIdle
    /\ wKey \in BOOLEAN
    /\ wName \in ToolCallNames
    /\ wQuery \in {"missing", "blank", "text"}
    /\ wCall = "none"
    /\ wPc = "start"
    /\ wOut = << >>
    /\ wSchema = {}
    /\ wRequests = 0

\* callApi builds its request: tools: makeSchema().
CallMakeSchema ==
    /\ wPc = "start"
    /\ wCall' = "makeSchema"
    /\ wSchema' = makeSchema(wKey)
    /\ wPc' = "returned"
    /\ UNCHANGED <<wKey, wName, wQuery, wOut, wRequests>>
    /\ UNCHANGED <<budgetVars, schedVars, decodeVars, turnVars, retryVars>>

\* The step of a call that reaches webSearch.
EnterWebSearch ==
    LET ws == webSearch(wQuery, wKey)
    IN IF ws.request
       THEN /\ wRequests' = wRequests + 1
            /\ wPc' = "searching"
            /\ UNCHANGED wOut
       ELSE /\ wOut' = ws.out
            /\ wPc' = "returned"
            /\ UNCHANGED wRequests

\* runTool(wName, {query}): for web_search with a key the registry entry is
\* webSearch; any other tool returns or throws as impl says.
CallRunTool(impl) ==
    /\ wPc = "start"
    /\ wCall' = "runTool"
    /\ IF normalizeToolName(wName) = "web_search" /\ wKey
       THEN EnterWebSearch
       ELSE /\ wOut' = runTool(wName, wKey, impl)
            /\ wPc' = "returned"
            /\ UNCHANGED wRequests
    /\ UNCHANGED <<wKey, wName, wQuery, wSchema>>
    /\ UNCHANGED <<budgetVars, schedVars, decodeVars, turnVars, retryVars>>

\* webSearch({query}) called on its own.
CallWebSearch ==
    /\ wPc = "start"
    /\ wCall' = "webSearch"
    /\ EnterWebSearch
    /\ UNCHANGED <<wKey, wName, wQuery, wSchema>>
    /\ UNCHANGED <<budgetVars, schedVars, decodeVars, turnVars, retryVars>>

\* braveSearchApi has answered or thrown.
SearchEnds(out) ==
    /\ wPc = "searching"
    /\ wOut' = out
    /\ wPc' = "returned"
    /\ UNCHANGED <<wKey, wName, wQuery, wCall, wSchema, wRequests>>
    /\ UNCHANGED <<budgetVars, schedVars, decodeVars, turnVars, retryVars>>

ToolsNext ==
    \/ CallMakeSchema
    \/ \E impl \in ToolBehaviours : CallRunTool(impl)
    \/ CallWebSearch
    \/ \E out \in SearchOutcomes : SearchEnds(out)

SpecTools == ToolsInit /\ [][ToolsNext]_vars

(***************************************************************************)
(* Claims.                                                                 *)
(***************************************************************************)
\* The tool_result blocks of the user message that ends the round-trip.
LastResults ==
    IF sState # << >> /\ ~sState[Len(sState)].str /\ sState[Len(sState)].role = "user"
    THEN sState[Len(sState)].blocks ELSE << >>

\* C1: when the round-trip ends with a next model call, every tool_use block
\* of the response has exactly one tool_result with its id in the user message
\* appended after the assistant message.
C1_EveryToolUseHasOneResult ==
    sOutcome = "next_model_call" =>
        \A i \in DOMAIN sBlocks :
            sBlocks[i].type = "tool_use" =>
                Cardinality({ k \in DOMAIN LastResults :
                                LastResults[k].id = sBlocks[i].id }) = 1

\* The ids of the tool_use blocks of message i of ms, when it is an assistant
\* message.
ToolUseIdsAt(ms, i) ==
    IF i \in DOMAIN ms /\ ms[i].role = "assistant" /\ ~ms[i].str
    THEN { ms[i].blocks[k].id : k \in { j \in DOMAIN ms[i].blocks :
                                          ms[i].blocks[j].type = "tool_use" } }
    ELSE {}

\* C2: in every conversation state the Repl holds, every tool_result block
\* references a tool_use block of the message immediately before its own, and
\* that message is an assistant message.
C2_ToolResultFollowsItsToolUse ==
    \A i \in DOMAIN messages :
        \A k \in DOMAIN messages[i].blocks :
            messages[i].blocks[k].type = "tool_result" =>
                messages[i].blocks[k].id \in ToolUseIdsAt(messages, i - 1)

\* The allow-list as the specification states it.
AllowList == {"read", "glob", "grep", "web_fetch", "web_search"}

AllowListed(i) == normalizeToolName(sBlocks[i].name) \in AllowList

PlannedPositions == { i \in DOMAIN sBlocks : IsPlanned(sBlocks[i]) }

\* The positions of the calls that get a result, in the order of the response.
ResultPositions ==
    SelectSeq([i \in DOMAIN sBlocks |-> i],
              LAMBDA i : IsPlanned(sBlocks[i]) /\ sBlocks[i].id # "")

\* C3: the tool_result blocks are in the order of their tool_use blocks in the
\* response: at every moment toolResults holds the outputs of calls at
\* increasing positions, each under the id of its call, and at the end of the
\* round-trip it holds one for each call, in the order of the response.
C3_ResultsInRequestOrder ==
    /\ \A k \in DOMAIN sResults :
          /\ sResults[k].id = sBlocks[sResults[k].call].id
          /\ k > 1 => sResults[k - 1].call < sResults[k].call
    /\ (sPc = "done" /\ sOutcome # "empty") =>
          [k \in DOMAIN sResults |-> sResults[k].call] = ResultPositions

\* Scenario E ran, the calls of its batch returned out of order.
C3_Witness ==
    /\ sPc = "done"
    /\ sBlocks = ScenarioE
    /\ sParallel
    /\ sEnded = <<3, 1, 2, 4>>
    /\ Len(sResults) = 4

\* C4: a call that is not allow-listed is the only one running while it runs,
\* and such calls start in the order of the response.
C4_ExclusiveCallsRunAlone ==
    /\ \A i \in sRunning : ~AllowListed(i) => sRunning = {i}
    /\ \A a, b \in DOMAIN sStarted :
          (a < b /\ ~AllowListed(sStarted[a]) /\ ~AllowListed(sStarted[b]))
              => sStarted[a] < sStarted[b]

\* A write runs after a batch of two and an earlier write.
C4_Witness ==
    /\ sParallel
    /\ \E i \in sRunning :
          /\ ~AllowListed(i)
          /\ \E j \in SeqToSet(sEnded) : ~AllowListed(j)
          /\ \E j \in SeqToSet(sEnded) : AllowListed(j)

\* C5: when a call that is not allow-listed has started, every call planned
\* before it has returned; when an allow-listed call has started, every call
\* planned before it that is not allow-listed has returned.
C5_BatchDrainedBeforeExclusive ==
    /\ \A j \in SeqToSet(sStarted) :
          ~AllowListed(j) =>
              \A i \in PlannedPositions : i < j => i \in SeqToSet(sEnded)
    /\ \A i \in SeqToSet(sStarted) :
          AllowListed(i) =>
              \A j \in PlannedPositions :
                  (j < i /\ ~AllowListed(j)) => j \in SeqToSet(sEnded)

\* read1, write, read2 ran: read2 is running, read1 and write have returned.
C5_Witness ==
    /\ sParallel
    /\ sBlocks = << ToolUse("t1", "read", TRUE), ToolUse("t2", "write", TRUE),
                    ToolUse("t3", "read", TRUE) >>
    /\ sRunning = {3}
    /\ sEnded = <<1, 2>>

\* C6: the result of ensureUnderBudget, of either definition, is under
\* budget or has exactly one message, for every history, the empty one
\* included.
C6_UnderBudgetOrSingle ==
    bPc \in {"returned", "f_returned"} =>
        \/ estimateTokens(bWorking, bPrompt) <= bMax
        \/ Len(bWorking) = 1

\* C7: a failing summarization does not make ensureUnderBudget fail.
C7_SummarizerFailureAbsorbed == bPc # "threw"

\* The tool_use blocks of a block list, in order.
ToolUses(blocks) == SelectSeq(blocks, LAMBDA b : b.type = "tool_use")

\* The event lines of a stream that carry tool-call fragments, in order.
FragmentLines(stream) == SelectSeq(stream, LAMBDA ev : ev.hasToolCalls)

\* The arguments fragments of a stream, concatenated.
RECURSIVE ConcatArgs(_)
ConcatArgs(lines) ==
    IF lines = << >> THEN << >>
    ELSE Head(lines).tool_calls[1].arguments \o ConcatArgs(Tail(lines))

HasFinishSignal(stream) ==
    \E i \in DOMAIN stream : stream[i].kind = "done" \/ stream[i].finish_reason

\* The same stream with the arguments in one fragment: the first fragment
\* line, carrying the whole string, and then the ending.
WholeStream(stream) ==
    LET first == stream[1]
        whole == ConcatArgs(FragmentLines(stream))
    IN << [first EXCEPT !.tool_calls[1].arguments = whole] >>
       \o SelectSeq(stream, LAMBDA ev : ~ev.hasToolCalls)

\* The arguments string of the stream is the JSON text of an object.
ArgsAreObject(stream) ==
    LET parsed == JSONparse(ConcatArgs(FragmentLines(stream)))
    IN parsed.ok /\ Head(parsed.val) = "obj"

\* C8: a call whose arguments (a JSON object) came in several fragments,
\* followed by a finish signal, is in the final block list exactly once, with
\* the parse of the concatenated fragments as input.
C8_FragmentsEmitOneToolUse ==
    ( /\ dStream \in FragmentStreams
      /\ ArgsAreObject(dStream)
      /\ dSt.returned
      /\ HasFinishSignal(dStream)
      /\ Len(FragmentLines(dStream)) >= 2 )
    => ToolUses(dSt.contentBlocks)
         = << DToolUse("t1", "read",
                       JSONparse(ConcatArgs(FragmentLines(dStream))).val) >>

\* C9: the tool_use blocks decoded from the fragments of an arguments string
\* (the JSON text of an object) are those decoded from the whole string fed
\* in one event.
C9_SplitEqualsWhole ==
    (dStream \in FragmentStreams /\ ArgsAreObject(dStream) /\ dSt.returned)
    => ToolUses(dSt.contentBlocks)
         = ToolUses(decodeFrom(DecoderStart, WholeStream(dStream), 1).contentBlocks)

\* The calls of handleSubmit that are inside a model turn: between the
\* setLoading(true) of processInput and its return or its throw.
TurnsInProgress ==
    { a \in DOMAIN acts : acts[a].pc \in {"summarizing", "model", "tools"} }

\* C10: at most one turn is in progress at any time.
C10_AtMostOneTurnInProgress == Cardinality(TurnsInProgress) <= 1

\* A response without tool_use and without non-blank text arrives for call a.
EmptyResponseArrives(a) ==
    ModelEmptyRetry(a, BlankResponse) \/ ModelEmptyGiveUp(a, BlankResponse)

\* After the step, call a is no longer in the turn it was in: handleSubmit has
\* returned, or it has started the turn of the queued message.
TurnOver(a) == acts'[a].pc = "idle" \/ (acts'[a].second /\ ~acts[a].second)

\* C11: an empty response is retried while fewer than 3 consecutive retries
\* were made, the turn going on with the same history; an empty response
\* after 3 retries makes no further model call in the turn and puts the
\* notice that invites to resubmit in the log.
C11_EmptyRetriesBounded ==
    [][\A a \in DOMAIN acts :
          EmptyResponseArrives(a) =>
              /\ acts[a].retries <= 3
              /\ acts[a].retries < 3 =>
                    /\ acts'[a].pc = "model"
                    /\ acts'[a].retries = acts[a].retries + 1
                    /\ acts'[a].state = acts[a].state
                    /\ notice' = notice
              /\ acts[a].retries = 3 =>
                    /\ TurnOver(a)
                    /\ notice' = "empty_output"]_vars

\* A turn was stopped after its retries.
C11_Witness == notice = "empty_output" /\ loading = FALSE

\* C12: callApi fails on a rate-limit status (429) only after it has
\* retried: onRetry was called, before a wait, at least once.
C12_RateLimitRetriedBeforeFatal ==
    (rPc = "thrown" /\ rStatus = 429) => Len(rLog) >= 1

\* The ids of the tool_result blocks of message i of ms, when it is a user
\* message of blocks.
ToolResultIdsAt(ms, i) ==
    IF i \in DOMAIN ms /\ ms[i].role = "user" /\ ~ms[i].str
    THEN { ms[i].blocks[k].id : k \in { j \in DOMAIN ms[i].blocks :
                                          ms[i].blocks[j].type = "tool_result" } }
    ELSE {}

\* Every assistant message with tool_use blocks is followed by the message of
\* their tool_result blocks.
FullySettled(ms) ==
    \A i \in DOMAIN ms :
        ToolUseIdsAt(ms, i) # {} => ToolUseIdsAt(ms, i) \subseteq ToolResultIdsAt(ms, i + 1)

\* C13: when callApi throws during a turn the error is shown, the turn is over
\* with loading cleared, the failure adds no message to the conversation, and
\* the conversation holds no assistant message with tool_use blocks that is
\* not followed by the message of their tool_result blocks.
C13_FailureLeavesSettledState ==
    [][\A a \in DOMAIN acts :
          ModelFails(a) =>
              /\ notice' = "error"
              /\ loading' = FALSE
              /\ acts'[a].pc = "idle"
              /\ messages' = messages
              /\ FullySettled(messages')]_vars

\* The implementation throws, or there is no tool of that name.
ToolFails(name, braveKey, impl) ==
    impl.throws \/ normalizeToolName(name) \notin getTools(braveKey)

\* results holds a tool_result for call i, under the id of its tool_use, with a
\* content that starts with "error:".
ErrorRecorded(results, i) ==
    \E k \in DOMAIN results :
        /\ results[k].call = i
        /\ results[k].id = sBlocks[i].id
        /\ results[k].err

\* C14: when a tool throws or its name is unknown, runTool returns a string
\* that starts with "error:"; that string is the content of the call's
\* tool_result; the loop goes on with the remaining calls, and the round-trip
\* ends in the next model call.
C14_ToolFailureIsRecorded ==
    [][/\ \A impl \in ToolBehaviours, braveKey \in BraveKeys :
            (CompleteSequentialToolWith(impl, braveKey)
                /\ ToolFails(sBlocks[sIdx].name, braveKey, impl)) =>
                    /\ ErrorRecorded(sResults', sIdx)
                    /\ sPc' = "loop"
                    /\ sIdx' = sIdx + 1
       /\ \A i \in sRunning, impl \in ToolBehaviours, braveKey \in BraveKeys :
            (CompleteBatchToolWith(i, impl, braveKey)
                /\ ToolFails(sBlocks[i].name, braveKey, impl)) =>
                    /\ sSettled'[i].err
                    /\ sPc' = "batch"
       /\ DrainBatch =>
            \A i \in DOMAIN sSettled : sSettled[i].err => ErrorRecorded(sResults', i)
       /\ (sPc' = "done" /\ sPc # "done" /\ \E k \in DOMAIN sResults' : sResults'[k].err) =>
            /\ sOutcome' = "next_model_call"
            /\ \A i \in PlannedPositions :
                  sBlocks[i].id # "" => \E k \in DOMAIN sResults' : sResults'[k].call = i]_vars

\* The last n messages of h, by position.
LastMessages(h, n) == [i \in 1..n |-> h[Len(h) - n + i]]

\* A message compressState makes: an assistant message whose content is a
\* summary envelope.
IsSummaryMessage(m) ==
    \E s \in Summaries :
        m = summaryMessage(s, extractPinnedFacts(toSummarize(bState, bKeep)))

\* C15: for every keepLast >= 0 and every history longer than keepLast, when
\* callSummarize answers, compressState returns one summary message followed
\* by the last keepLast messages of the history in their order: keepLast + 1
\* messages.
C15_SummaryThenLastKeepLast ==
    bPc = "c_compressed" =>
        /\ Len(bState) > bKeep
        /\ Len(bWorking) = bKeep + 1
        /\ IsSummaryMessage(bWorking[1])
        /\ Tail(bWorking) = LastMessages(bState, bKeep)

\* C16: compressState returns the history it was given, without a call of
\* callSummarize, exactly when the history has at most keepLast messages.
C16_UnchangedIffShort ==
    /\ bPc = "c_unchanged" => (Len(bState) <= bKeep /\ bWorking = bState)
    /\ bPc \in {"c_summarizing", "c_compressed", "c_threw"} => Len(bState) > bKeep

\* A history of exactly keepLast messages came back as it was.
C16_Witness ==
    /\ bPc = "c_unchanged"
    /\ Len(bState) = bKeep
    /\ bKeep = MaxKeepLast
    /\ bWorking = bState

\* C17: ensureUnderBudget called on its own result, with the same prompt and
\* options, returns that result as it is: it calls no summarizer, drops no
\* message and does not fail.
C17_Idempotent ==
    bRound = 2 =>
        /\ bPc \notin {"summarizing", "threw"}
        /\ bPc = "returned" => bWorking = bState

\* C18: when the estimate of the history with the system prompt is at most
\* maxTokens, ensureUnderBudget returns the history as it is and does not
\* call the summarizer, whatever the length of the history and keepLast.
C18_UnderBudgetUntouched ==
    estimateTokens(bState, bPrompt) <= bMax =>
        /\ bPc \notin {"summarizing", "threw"}
        /\ bPc = "returned" => bWorking = bState

\* A history longer than keepLast and within budget came back as it was.
C18_Witness ==
    /\ bPc = "returned"
    /\ bRound = 1
    /\ estimateTokens(bState, bPrompt) <= bMax
    /\ Len(bState) > bKeep
    /\ Len(bState) = MaxHist
    /\ bWorking = bState

\* The call r has returned its block list.
RunReturned(r) == dSt[r] # << >> /\ dSt[r].returned

\* C19: two calls of callApiStream that were fed the same event lines and
\* have returned hold identical block lists: the same blocks in the same
\* order, with the same text and the same inputs, however the bytes came in
\* and whenever the calls of onToolCall came back.
C19_TwoRunsSameBlocks ==
    (RunReturned(1) /\ RunReturned(2)) =>
        dSt[1].contentBlocks = dSt[2].contentBlocks

\* The two calls took the bytes in different chunks, the second one with a
\* line cut by the chunk boundary, and have both returned two tool_use
\* blocks, the second with the arguments that came in two fragments.
C19_Witness ==
    /\ RunReturned(1)
    /\ RunReturned(2)
    /\ Len(dStream[1]) = 1
    /\ Len(dStream[2]) = 2
    /\ Len(dStream[2][1]) = 4
    /\ Len(dSt[2].contentBlocks) = 2
    /\ dSt[2].contentBlocks[1].id = "t1"
    /\ dSt[2].contentBlocks[2].id = "t2"
    /\ dSt[2].contentBlocks[2].input = <<"obj", <<"str", <<"a">>>>, <<"num", 1>>>>

\* The length of the content the claim gives the tool_result of a call whose
\* tool returned out: the length of out when that is at most 3500, otherwise
\* 3500 plus the length of the truncation notice; and the content starts with
\* "error:" exactly when out does.
ContentAsClaimed(r, out) ==
    /\ r.type = "tool_result"
    /\ r.len = IF out.len <= 3500 THEN out.len ELSE 3500 + TRUNCATE_NOTE_CHARS
    /\ r.err = out.err

\* C20: the content of every tool_result is the string runTool returned when
\* that has at most 3500 characters, otherwise its first 3500 characters
\* followed by the truncation notice.
C20_ResultContentTruncated ==
    [][/\ \A impl \in ToolBehaviours, braveKey \in BraveKeys :
            (CompleteSequentialToolWith(impl, braveKey) /\ sBlocks[sIdx].id # "") =>
                /\ Len(sResults') = Len(sResults) + 1
                /\ SubSeq(sResults', 1, Len(sResults)) = sResults
                /\ ContentAsClaimed(sResults'[Len(sResults')],
                        runTool(normalizeToolName(sBlocks[sIdx].name), braveKey, impl))
       /\ DrainBatch =>
            /\ SubSeq(sResults', 1, Len(sResults)) = sResults
            /\ \A k \in (Len(sResults) + 1)..Len(sResults') :
                  /\ sResults'[k].call \in DOMAIN sSettled
                  /\ ContentAsClaimed(sResults'[k], sSettled[sResults'[k].call])
       /\ (~DrainBatch /\ ~CompleteSequentialTool) => sResults' = sResults]_vars

\* A round-trip ended with a result of exactly 3500 characters kept whole and
\* a longer one cut.
C20_Witness ==
    /\ sPc = "done"
    /\ \E k \in DOMAIN sResults : sResults[k].len = 3500
    /\ \E k \in DOMAIN sResults : sResults[k].len = 3500 + TRUNCATE_NOTE_CHARS

\* C21: web_search is among the tools of the schema exactly when a Brave key
\* is set, and runTool("web_search", ...) without a key returns a string that
\* starts with "error:" without a request to the search API.
C21_WebSearchOfferedIffKey ==
    /\ wCall = "makeSchema" => (("web_search" \in wSchema) <=> wKey)
    /\ (wCall = "runTool" /\ wName = "web_search" /\ ~wKey) =>
          /\ wPc = "returned"
          /\ wOut.err
          /\ wRequests = 0

\* Either case: a schema with web_search made with a key, or a call of
\* web_search refused for want of one.
C21_Witness ==
    \/ wCall = "makeSchema" /\ wKey /\ "web_search" \in wSchema
    \/ wCall = "runTool" /\ wName = "web_search" /\ ~wKey /\ wOut # << >> /\ wOut.err

\* C22: webSearch with a missing, empty or blank query returns a string that
\* starts with "error:" and sends no request, with a key or without.
C22_BlankQueryIsAnError ==
    (wCall = "webSearch" /\ wQuery \in {"missing", "blank"}) =>
        /\ wPc = "returned"
        /\ wOut.err
        /\ wRequests = 0

\* A blank query was refused although a key is set.
C22_Witness ==
    /\ wCall = "webSearch"
    /\ wQuery = "blank"
    /\ wKey
    /\ wPc = "returned"
    /\ wOut.err
    /\ wRequests = 0

\* C23: a response with at least one tool_use block ends its round-trip with
\* exactly two messages appended, the assistant message with all the blocks
\* of the response and then one user message with the tool_result blocks, and
\* with another model call.
C23_ToolRoundTripAppendsTwo ==
    (sPc = "done" /\ ToolUses(sBlocks) # << >>) =>
        /\ Len(sState) = 3
        /\ sState[2] = BlocksMsg("assistant", sBlocks)
        /\ sState[3] = BlocksMsg("user", sResults)
        /\ sResults # << >>
        /\ sOutcome = "next_model_call"

\* C24: a response that is not empty and holds no tool_use block appends one
\* assistant message to the history of the turn; the result becomes the
\* conversation state; the turn makes no further model call and is over, with
\* loading cleared (a queued message, if there is one, then starts its own
\* turn).
C24_TextResponseSettles ==
    [][\A a \in DOMAIN acts :
          (ModelAnswers(a, AnswerResponse) /\ ToolUses(AnswerResponse) = << >>) =>
              /\ messages' = Append(acts[a].state, BlocksMsg("assistant", AnswerResponse))
              /\ TurnOver(a)
              /\ acts'[a].pc = "idle" => ~loading'
              /\ acts'[a].pc # "idle" => (queuedMessage # 0 /\ queuedMessage' = 0)]_vars

\* A turn was answered with text at once and the Repl is idle again.
C24_Witness ==
    /\ \A a \in DOMAIN acts : acts[a].pc = "idle"
    /\ ~loading
    /\ lastUserMessage
    /\ Len(messages) >= 2
    /\ messages[Len(messages)] = BlocksMsg("assistant", AnswerResponse)
    /\ messages[Len(messages) - 1] = StrMsg("user", UserTextLen)

\* C25: an empty response appends no message and does not end the turn while
\* retries remain; after the last retry the conversation state becomes the
\* history of the turn as it was before the empty responses, without an
\* assistant message for them.
C25_EmptyResponseLeavesHistory ==
    [][\A a \in DOMAIN acts :
          /\ ModelEmptyRetry(a, BlankResponse) =>
                /\ messages' = messages
                /\ acts'[a].state = acts[a].state
                /\ acts'[a].pc = "model"
                /\ acts'[a].second = acts[a].second
          /\ ModelEmptyGiveUp(a, BlankResponse) =>
                /\ messages' = acts[a].state
                /\ messages'[Len(messages')].role = "user"
                /\ \E i \in DOMAIN messages' : messages'[i] = StrMsg("user", UserTextLen)
                       \/ messages'[i] = StrMsg("user", QueuedTextLen)]_vars

\* A turn stopped on empty responses after a completed tool round-trip, whose
\* messages are kept.
C25_Witness ==
    /\ notice = "empty_output"
    /\ \A a \in DOMAIN acts : acts[a].pc = "idle"
    /\ Len(messages) >= 3
    /\ ToolResultIdsAt(messages, Len(messages)) # {}
    /\ ToolUseIdsAt(messages, Len(messages) - 1) # {}

\* Activation a stays in the turn it is in.
SameTurn(a) ==
    /\ acts[a].pc # "idle"
    /\ acts'[a].pc # "idle"
    /\ acts'[a].second = acts[a].second

IsPrefix(s, t) == Len(s) <= Len(t) /\ SubSeq(t, 1, Len(s)) = s

\* C26: ensureUnderBudget runs once in a turn, on the history that ends with
\* the user message and before the first model call; once the model has been
\* called the history of the turn only grows, whatever its size.
C26_BudgetOncePerTurn ==
    [][\A a \in DOMAIN acts :
          /\ (~SameTurn(a) /\ acts'[a].pc \in {"summarizing", "model"}) =>
                /\ acts'[a].state # << >>
                /\ acts'[a].state[Len(acts'[a].state)].role = "user"
                /\ acts'[a].state[Len(acts'[a].state)].str
                /\ acts'[a].trips = 0
          /\ (SameTurn(a) /\ acts[a].pc = "summarizing") =>
                \/ [acts'[a] EXCEPT !.stale = acts[a].stale] = acts[a]
                \/ acts'[a].pc = "model"
          /\ (SameTurn(a) /\ acts[a].pc \in {"model", "tools"}) =>
                /\ acts'[a].pc \in {"model", "tools"}
                /\ IsPrefix(acts[a].state, acts'[a].state)]_vars

\* After a round-trip the history of the turn is over the budget and the
\* model is called with it as it is.
C26_Witness ==
    \E a \in DOMAIN acts :
        /\ acts[a].pc = "model"
        /\ acts[a].trips >= 1
        /\ estimateTokens(acts[a].state, SystemPromptChars) > maxContextTokens(acts[a].ctx)
        /\ Len(acts[a].state) > 1

\* The turn of activation a ends and the message queued with Tab starts the
\* next turn.
QueuedTurnStarts(a) ==
    /\ acts[a].pc \in {"model", "tools"}
    /\ ~acts[a].second
    /\ acts'[a].second
    /\ acts'[a].pc \in {"model", "summarizing"}

\* C27: the message queued with Tab becomes a turn when the running turn has
\* finished, and the history of that turn holds, in order, every message of
\* the finished turn followed by the queued message (in a conversation that
\* fits the budget, where nothing is compressed or trimmed).
C27_QueuedTurnSeesFinishedTurn ==
    [][\A a \in DOMAIN acts :
          (/\ QueuedTurnStarts(a)
           /\ estimateTokens(Append(messages', StrMsg("user", queuedMessage)),
                             SystemPromptChars) <= maxContextTokens(acts[a].ctx)) =>
             acts'[a].state = Append(messages', StrMsg("user", queuedMessage))]_vars

\* The slot has id and name, and its arguments buffer is empty or parses.
EmittableAsClaimed(t) ==
    /\ t.id # ""
    /\ t.name # ""
    /\ t.arguments = << >> \/ JSONparse(t.arguments).ok

\* C28: a step of the decoder appends a tool_use block only for a slot that
\* has id and name and an arguments buffer that is empty or parses as JSON,
\* with that parse as input; between two lines no such slot is left without
\* its block, and for any other slot nothing is appended, the run returning
\* its block list all the same when the stream has ended.
C28_EmitOnlyWhenParses ==
    /\ [][ToolUses(dSt'.contentBlocks) # ToolUses(dSt.contentBlocks) =>
            LET t == dSt.toolAccum[dSt.at]
            IN /\ dSt.awaiting # "none"
               /\ EmittableAsClaimed(t)
               /\ ToolUses(dSt'.contentBlocks)
                    = Append(ToolUses(dSt.contentBlocks),
                             DToolUse(t.id, t.name,
                                      IF t.arguments = << >> THEN EmptyObject
                                      ELSE JSONparse(t.arguments).val))]_vars
    /\ []((dSt # << >> /\ dSt.awaiting = "none" /\ dSt.error = "none") =>
             \A i \in Slots : ~EmittableAsClaimed(dSt.toolAccum[i]))
    /\ [][(Reading(dSt) /\ dPos = Len(dStream) + 1) => dSt'.returned]_vars

\* The event lines of a stream with a fragment for the slot, in order.
SlotLines(stream, slot) ==
    SelectSeq(stream, LAMBDA ev : ev.hasToolCalls /\ ev.tool_calls[1].index = slot)

\* The first fragment of the slot carries id and name and no arguments, the
\* later ones carry the arguments, whose concatenation is a JSON text.
HeaderThenArguments(stream, slot) ==
    LET lines == SlotLines(stream, slot)
    IN /\ Len(lines) >= 2
       /\ lines[1].tool_calls[1].id # ""
       /\ lines[1].tool_calls[1].name # ""
       /\ ~lines[1].tool_calls[1].hasArgs
       /\ \A k \in 2..Len(lines) : lines[k].tool_calls[1].hasArgs
       /\ JSONparse(ConcatArgs(lines)).ok

\* C29: a slot whose id and name come in a fragment without arguments, the
\* arguments following in later fragments, is returned as one tool_use block
\* whose input is the parse of the concatenated arguments.
C29_HeaderFirstKeepsArguments ==
    (dSt # << >> /\ dSt.returned /\ HeaderThenArguments(dStream, 0)) =>
        LET lines == SlotLines(dStream, 0)
        IN SelectSeq(dSt.contentBlocks, LAMBDA b : b.id = lines[1].tool_calls[1].id)
             = << DToolUse(lines[1].tool_calls[1].id, lines[1].tool_calls[1].name,
                           JSONparse(ConcatArgs(lines)).val) >>

TextBlocks(blocks) == SelectSeq(blocks, LAMBDA b : b.type = "text")

\* The text deltas of the event lines, concatenated in order.
RECURSIVE ConcatContent(_)
ConcatContent(lines) ==
    IF lines = << >> THEN << >>
    ELSE Head(lines).content \o ConcatContent(Tail(lines))

\* C30: the block list holds at most one text block, whose text is the
\* concatenation of the text deltas read so far; the block is appended when
\* the first text delta is read, behind the blocks emitted before it, and
\* stays at that position, the tool_use blocks around it unchanged.
C30_OneTextBlockInPlace ==
    [][LET old == dSt.contentBlocks
           new == dSt'.contentBlocks
           text == ConcatContent(SubSeq(dStream, 1, dPos' - 1))
       IN /\ TextBlocks(new) = IF text = << >> THEN << >> ELSE <<DText(text)>>
          /\ IsPrefix(ToolUses(old), ToolUses(new))
          /\ \A k \in DOMAIN old : new[k].type = old[k].type
          /\ (TextBlocks(old) = << >> /\ TextBlocks(new) # << >>) =>
                new[Len(old) + 1].type = "text"]_vars

\* A run has returned a tool_use block followed by the text block, which
\* holds the text of two deltas.
C30_Witness ==
    /\ dSt # << >>
    /\ dSt.returned
    /\ Len(dSt.contentBlocks) = 2
    /\ dSt.contentBlocks[1].type = "tool_use"
    /\ dSt.contentBlocks[2] = DText(<<"h", "i">>)

RECURSIVE Flatten(_)
Flatten(chunks) ==
    IF chunks = << >> THEN << >> ELSE Head(chunks) \o Flatten(Tail(chunks))

\* The newline-terminated lines of the byte stream, by position.
LinesOf(bytes) == [k \in 1..(Len(bytes) \div 3) |-> bytes[3 * k - 2].line]

\* The line is a finish signal: "data: [DONE]", or an event with finish_reason.
IsFinishSignal(line) ==
    LET parsed == parseStreamChunk(line)
    IN parsed.kind = "done" \/ (parsed.kind = "delta" /\ parsed.finish_reason)

\* The position of the first finish signal among the lines (0: none).
FirstFinish(lines) ==
    IF \E k \in DOMAIN lines : IsFinishSignal(lines[k])
    THEN CHOOSE k \in DOMAIN lines :
            /\ IsFinishSignal(lines[k])
            /\ \A j \in 1..(k - 1) : ~IsFinishSignal(lines[j])
    ELSE 0

\* The text deltas of the lines that parse to an event, concatenated.
RECURSIVE TextOfLines(_)
TextOfLines(lines) ==
    IF lines = << >> THEN << >>
    ELSE (IF parseStreamChunk(Head(lines)).kind = "delta"
          THEN parseStreamChunk(Head(lines)).content ELSE << >>)
         \o TextOfLines(Tail(lines))

\* The characters the chunks read so far hold.
BytesRead == Len(Flatten(SubSeq(dStream, 1, dPos - 1)))

\* C31: once the line of the first finish signal has been read, and no call
\* of onToolCall is pending or was rejected, the block list is returned; it
\* holds the text of the lines up to and including that line,
\* no slot is left that a final emission attempt would emit, and it is the
\* list returned for the stream cut off behind the finish signal.
C31_FinishSignalReturns ==
    LET lines == LinesOf(Flatten(dStream))
        f == FirstFinish(lines)
    IN (dSt # << >> /\ f > 0) =>
          /\ (BytesRead >= 3 * f /\ dSt.error = "none" /\ dSt.awaiting = "none")
                => dSt.returned
          /\ dSt.returned =>
                /\ TextBlocks(dSt.contentBlocks)
                     = IF TextOfLines(SubSeq(lines, 1, f)) = << >> THEN << >>
                       ELSE <<DText(TextOfLines(SubSeq(lines, 1, f)))>>
                /\ \A i \in Slots :
                      ~(/\ dSt.toolAccum[i].id # ""
                        /\ dSt.toolAccum[i].name # ""
                        /\ (~NonBlank(dSt.toolAccum[i].arguments)
                             \/ JSONparse(dSt.toolAccum[i].arguments).ok))
                /\ dSt.contentBlocks
                     = readFrom(ReaderStart, <<BytesOf(SubSeq(lines, 1, f))>>, 1).contentBlocks

\* A run has returned on a line with finish_reason and text, a line with text
\* following it in the stream.
C31_Witness ==
    /\ dSt # << >>
    /\ dSt.returned
    /\ LinesOf(Flatten(dStream)) =
          <<FinishReasonLine,
            StreamLine(TRUE, "json", DeltaEvent(<<"h">>, FALSE, << >>, FALSE))>>
    /\ dSt.contentBlocks = <<DText(<<"k">>)>>

\* The line lacks the "data: " prefix, or its payload is neither the
\* terminator nor a JSON text.
IsMalformed(line) == ~line.prefix \/ line.data \notin {"[DONE]", "json"}

\* What follows the last newline of the byte stream.
TailOf(bytes) == SubSeq(bytes, 3 * (Len(bytes) \div 3) + 1, Len(bytes))

\* C32: the block list returned for a stream is the one returned for the
\* stream without its malformed lines, and a run that ends with an exception
\* of the loop does so without them too.
C32_MalformedLinesSkipped ==
    LET bytes == Flatten(dStream)
        good == SelectSeq(LinesOf(bytes), LAMBDA line : ~IsMalformed(line))
        clean == readFrom(ReaderStart, <<BytesOf(good) \o TailOf(bytes)>>, 1)
    IN /\ (dSt # << >> /\ dSt.returned) => dSt.contentBlocks = clean.contentBlocks
       /\ (dSt # << >> /\ dSt.error = "TypeError") => clean.error = "TypeError"

\* A run has returned the text of a line that followed a malformed line.
C32_Witness ==
    /\ dSt # << >>
    /\ dSt.returned
    /\ Len(LinesOf(Flatten(dStream))) = 2
    /\ IsMalformed(LinesOf(Flatten(dStream))[1])
    /\ dSt.contentBlocks = <<DText(<<"h">>)>>

\* C33: a byte stream that ends without a finish signal makes callApiStream
\* return: the step that finds the stream at its end returns, with the block
\* list returned when "data: [DONE]" follows the last complete line; no slot
\* is left that an emission attempt would emit.
C33_EndOfStreamReturns ==
    /\ [][(dSt # << >> /\ Reading(dSt) /\ dPos = Len(dStream) + 1)
             => dSt'.returned]_vars
    /\ []((/\ dSt # << >>
           /\ FirstFinish(LinesOf(Flatten(dStream))) = 0
           /\ dSt.returned) =>
                /\ dPos = Len(dStream) + 1
                /\ dSt.contentBlocks
                     = readFrom(ReaderStart,
                                <<BytesOf(Append(LinesOf(Flatten(dStream)), DoneLine))>>,
                                1).contentBlocks
                /\ \A i \in Slots :
                      ~(/\ dSt.toolAccum[i].id # ""
                        /\ dSt.toolAccum[i].name # ""
                        /\ (~NonBlank(dSt.toolAccum[i].arguments)
                             \/ JSONparse(dSt.toolAccum[i].arguments).ok)))

\* A stream without finish signal, its last line cut short, has returned its
\* blocks.
C33_Witness ==
    /\ dSt # << >>
    /\ dSt.returned
    /\ FirstFinish(LinesOf(Flatten(dStream))) = 0
    /\ TailOf(Flatten(dStream)) # << >>
    /\ Len(dSt.contentBlocks) = 2

\* C34: the block list returned for the bytes delivered in the chunks of
\* dStream is the one returned for the same bytes delivered in one chunk,
\* and an exception of the loop is one of the run on the one chunk too.
C34_ChunkingIrrelevant ==
    LET whole == readFrom(ReaderStart, <<Flatten(dStream)>>, 1)
    IN /\ (dSt # << >> /\ dSt.returned) => dSt.contentBlocks = whole.contentBlocks
       /\ (dSt # << >> /\ dSt.error = "TypeError") => whole.error = "TypeError"

\* Two lines, the first of them cut by the chunk boundary, have each given a
\* block of the returned list.
C34_Witness ==
    /\ dSt # << >>
    /\ dSt.returned
    /\ Len(dStream) = 2
    /\ Len(dStream[1]) = 1
    /\ Len(LinesOf(Flatten(dStream))) = 2
    /\ Len(dSt.contentBlocks) = 2

\* The last n messages of h, in their order, for 0 <= n <= Len(h).
SuffixOf(h, n) == SubSeq(h, Len(h) - n + 1, Len(h))

IsSuffix(r, h) == Len(r) <= Len(h) /\ r = SuffixOf(h, Len(r))

\* r is what the trimming loop leaves of the list w: a suffix of w that is
\* within budget or has at most one message, every longer suffix of w being
\* over budget.
TrimmedFrom(r, w, promptChars, maxTokens) ==
    /\ IsSuffix(r, w)
    /\ estimateTokens(r, promptChars) <= maxTokens \/ Len(r) <= 1
    /\ \A n \in (Len(r) + 1)..Len(w) :
          estimateTokens(SuffixOf(w, n), promptChars) > maxTokens

\* C35: the result of ensureUnderBudget is what the trimming loop leaves of
\* the input history, or of a summary message followed by a suffix of the
\* input history: messages go from the old end only, the others keep their
\* order, and no more are dropped than the budget asks for.
C35_TrimsFromOldEnd ==
    bPc = "returned" =>
        \/ TrimmedFrom(bWorking, bState, bPrompt, bMax)
        \/ \E n \in 0..Len(bState), sc \in Summaries :
              TrimmedFrom(bWorking,
                          <<summaryMessage(sc, extractPinnedFacts(toSummarize(bState, bKeep)))>>
                              \o SuffixOf(bState, n),
                          bPrompt, bMax)

\* A history was trimmed without a summary: two of its messages are left, in
\* their order, and differ.
C35_Witness ==
    /\ bPc = "returned"
    /\ bRound = 1
    /\ Len(bState) = MaxHist
    /\ Len(bWorking) = 2
    /\ bWorking[1] # bWorking[2]
    /\ bWorking = SuffixOf(bState, 2)
    /\ estimateTokens(bState, bPrompt) > bMax

\* The characters estimateTokens counts for the call under way: the string
\* contents, the JSON texts of the other contents, and the system prompt.
TotalChars == SumChars(bState) + bPrompt

\* C36 (as stated): estimateTokens returns ceil(totalChars / 4), the least
\* integer q with 4 * q >= totalChars.
C36_EstimateIsCeiling ==
    LET q == estimateTokens(bState, bPrompt)
    IN 4 * q >= TotalChars /\ 4 * (q - 1) < TotalChars

\* C36 (amended): estimateTokens returns totalChars / 4 rounded to the
\* nearest integer, a half being rounded up: the integer q with
\* 4 * q - 2 <= totalChars < 4 * q + 2.
C36_EstimateIsNearest ==
    LET q == estimateTokens(bState, bPrompt)
    IN 4 * q - 2 <= TotalChars /\ TotalChars < 4 * q + 2

\* A call with a system prompt and a history that holds a string content and
\* a list of blocks, whose characters are one more than a multiple of 4.
C36_Witness ==
    /\ bPc = "returned"
    /\ bPrompt > 0
    /\ \E i \in DOMAIN bState : bState[i].str
    /\ \E i \in DOMAIN bState : ~bState[i].str
    /\ TotalChars % 4 = 1

\* The messages the turn of activation a has appended so far: the user
\* message that started it and two messages for every completed round-trip.
TurnMessages(a) == SuffixOf(acts[a].state, 1 + 2 * acts[a].trips)

\* C37: when the model call of a turn fails, the messages the turn has
\* appended so far are the last messages of the conversation after the
\* failure.
C37_FailureKeepsTurnMessages ==
    [][\A a \in DOMAIN acts :
          (ModelFails(a) /\ Len(acts[a].state) >= 1 + 2 * acts[a].trips) =>
              IsSuffix(TurnMessages(a), messages')]_vars

\* The toolResults of the loop that awaits every planned call where it
\* stands, one after the other.
RECURSIVE sequentialResults(_, _, _)
sequentialResults(results, bs, pos) ==
    IF pos > Len(bs) THEN results
    ELSE sequentialResults(
             IF IsPlanned(bs[pos])
             THEN renderToolOutcome(results, bs[pos], pos,
                      runTool(normalizeToolName(bs[pos].name), FALSE, DeterministicTool(pos)))
             ELSE results,
             bs, pos + 1)

\* C38: with deterministic tools the round-trip ends, with parallel calls
\* enabled or disabled, with the tool results of the sequential loop (ids,
\* order and contents), every planned call having run exactly once.
C38_ParallelEqualsSequential ==
    (sPc = "done" /\ sOutcome # "empty") =>
        /\ sResults = sequentialResults(<< >>, sBlocks, 1)
        /\ SeqToSet(sStarted) = PlannedPositions
        /\ Len(sStarted) = Cardinality(PlannedPositions)

\* With parallel calls enabled a batch of two calls returned in the other
\* order, the second with an error, and the round-trip has ended.
C38_Witness ==
    /\ sPc = "done"
    /\ sParallel
    /\ Len(sEnded) >= 2
    /\ sEnded[1] = 2
    /\ sEnded[2] = 1
    /\ Len(sResults) >= 2
    /\ sResults[2].err

\* Activation a is inside a model turn.
InTurn(a) == a \in DOMAIN acts /\ acts[a].pc \in {"summarizing", "model", "tools"}

\* No call of handleSubmit is running and the loading indicator is off.
OrchestratorIdle ==
    /\ \A a \in DOMAIN acts : acts[a].pc = "idle"
    /\ ~loading

\* C39: when every call awaited comes back, a turn in progress (settling,
\* retrying an empty response, or failing) leads to every call of
\* handleSubmit having returned with loading cleared: the orchestrator is
\* back in Idle.
C39_EveryTurnEnds ==
    ((\E a \in 1..MaxActs : InTurn(a)) \/ loading) ~> OrchestratorIdle

\* A turn has ended after a round-trip with tools and empty responses: the
\* last retry was given up.
C39_Witness ==
    /\ notice = "empty_output"
    /\ roundTrips >= 1
    /\ ~loading
    /\ \A a \in DOMAIN acts : acts[a].pc = "idle"
    /\ messages # << >>

\* C40: processing /clear leaves the conversation empty, and afterwards no
\* message from before the clear comes back: a call of handleSubmit that holds
\* messages of the cleared conversation, or of a turn or shell command in
\* progress at the clear, never changes the conversation again.
C40_ClearLeavesNothingBehind ==
    [][/\ (SelectClear \/ \E a \in 1..MaxActs : SubmitClear(a)) => messages' = << >>
       /\ \A a \in DOMAIN acts :
              (acts[a].stale /\ acts'[a] # acts[a]) => messages' = messages]_vars
====
